---------------------------- MODULE Spec2Model ----------------------------
(***************************************************************************)
(* A model of whale_scanner.py: the RateLimiter (pacing governor), the     *)
(* retrying transport of HLClient (_post_json / _get_json), the adaptive   *)
(* batch fetcher and the window-metrics function.                          *)
(*                                                                         *)
(* Units.  Times and durations are integers in milliseconds (0.15 s is     *)
(* 150).  Python floats are modelled by exact integer arithmetic with      *)
(* floor division where the code multiplies by 1.6 or 0.85; float rounding *)
(* is not modelled.  Account values are integers in units of the baseline  *)
(* epsilon (1e-9), so "v > baseline_eps" is "v > 1" here.                  *)
(***************************************************************************)
EXTENDS Integers, Sequences, FiniteSets, TLC

VARIABLES
    \* ---- RateLimiter fields and the wall clock (time.time())
    min_interval_s, max_interval_s, last_ts, cooldown, now,
    \* ---- one caller of the RateLimiter (history of its calls)
    l_pc, l_now, l_target, l_ops, l_lastOp, l_prevRet, l_cdAtCall, l_slept, l_waits,
    \* ---- several workers sharing the RateLimiter: each worker's position and
    \*      locals, and the history of returns and cooldown updates
    c_pc, c_now, c_target, c_cd, c_ops, c_prevRet, c_lastRet, c_nrets, c_cdSerial,
    \* ---- HLClient transport: RetryCfg.retries, the position inside one
    \*      _post_json / _get_json call, and the history of that call
    retries, t_pc, t_type, attempt, t_outcome, t_result, t_notes, t_lastSleep,
    t_allRetryable, nWait, nSend, nSleep, nNoteOk, nNoteErr, totWait, totSend, t_calls,
    \* ---- batch_clearinghouse_states_adaptive: its arguments, the stack of its
    \*      (recursive) activations, what it returned, and the requests it issued
    users, batch_size, min_batch_size, fallback_per_user,
    bf_pc, bf_stack, bf_states, bf_failed, bf_nBatch, bf_perUser, bf_log,
    \* ---- window_return_metrics: its argument, and what it returned
    wm_win, wm_pc, wm_out,
    \* ---- infer_position_ages_from_fills: its arguments, and what it returned
    fa_fills, fa_positions, fa_pc, fa_out,
    \* ---- apply_ranks: the cohort, and the rank scores and ranks it wrote;
    \*      write_mode_files: the wallet list of each <mode>_<key>.json
    rk_wallets, rk_pc, rk_scores, rk_ranks, rk_files,
    \* ---- risk_score: its arguments, and what it returned
    rs_av, rs_positions, rs_pc, rs_out,
    \* ---- main's candidate selection: --min-value, --limit, the fetched states, the loop index, and the candidates
    min_value, limit, states_by_user, cs_i, cs_pc, candidates,
    \* ---- main's address collection: --addresses, the lines of --file, --auto-find with the leaderboard answer and --top-n, and the list addrs with main's return code
    ad_cli, ad_file, ad_auto, ad_lb, ad_top_n, ad_pc, addrs, ad_rc,
    \* ---- style_label: its arguments, and the label it returned
    sl_risk, sl_vol, sl_mdd, sl_pc, sl_out,
    \* ---- main's fill stage: the candidates, the loop index, the userFills answers so far, failed_fills, last_trade, the ages set on each candidate's positions, and the two cohorts
    fs_candidates, fs_i, fs_pc, fs_answers, failed_fills, last_trade, fs_ages, active_addrs, inactive_addrs

limVars  == <<min_interval_s, max_interval_s, last_ts, cooldown, now>>
callVars == <<l_pc, l_now, l_target, l_ops, l_lastOp, l_prevRet, l_cdAtCall, l_slept, l_waits>>
concVars == <<c_pc, c_now, c_target, c_cd, c_ops, c_prevRet, c_lastRet, c_nrets, c_cdSerial>>
trVars   == <<retries, t_pc, t_type, attempt, t_outcome, t_result, t_notes, t_lastSleep,
               t_allRetryable, nWait, nSend, nSleep, nNoteOk, nNoteErr, totWait, totSend, t_calls>>
bfVars   == <<users, batch_size, min_batch_size, fallback_per_user,
               bf_pc, bf_stack, bf_states, bf_failed, bf_nBatch, bf_perUser, bf_log>>
wmVars   == <<wm_win, wm_pc, wm_out>>
faVars == <<fa_fills, fa_positions, fa_pc, fa_out>>
rkVars == <<rk_wallets, rk_pc, rk_scores, rk_ranks, rk_files>>
rsVars == <<rs_av, rs_positions, rs_pc, rs_out>>
csVars == <<min_value, limit, states_by_user, cs_i, cs_pc, candidates>>
adVars == <<ad_cli, ad_file, ad_auto, ad_lb, ad_top_n, ad_pc, addrs, ad_rc>>
slVars == <<sl_risk, sl_vol, sl_mdd, sl_pc, sl_out>>
fsVars == <<fs_candidates, fs_i, fs_pc, fs_answers, failed_fills, last_trade, fs_ages, active_addrs, inactive_addrs>>
vars     == <<limVars, callVars, concVars, trVars, bfVars, wmVars, faVars, rkVars, rsVars, csVars, adVars, slVars, fsVars>>

\* what the actions of one component leave alone
callerFrame == <<concVars, trVars, bfVars, wmVars, faVars, rkVars, rsVars, csVars, adVars, slVars, fsVars>>
concFrame   == <<callVars, trVars, bfVars, wmVars, faVars, rkVars, rsVars, csVars, adVars, slVars, fsVars>>
trFrame     == <<callVars, concVars, bfVars, wmVars, faVars, rkVars, rsVars, csVars, adVars, slVars, fsVars>>
bfFrame     == <<limVars, callVars, concVars, trVars, wmVars, faVars, rkVars, rsVars, csVars, adVars, slVars, fsVars>>
wmFrame     == <<limVars, callVars, concVars, trVars, bfVars, faVars, rkVars, rsVars, csVars, adVars, slVars, fsVars>>
faFrame == <<limVars, callVars, concVars, trVars, bfVars, wmVars, rkVars, rsVars, csVars, adVars, slVars, fsVars>>
rkFrame == <<limVars, callVars, concVars, trVars, bfVars, wmVars, faVars, rsVars, csVars, adVars, slVars, fsVars>>
rsFrame == <<limVars, callVars, concVars, trVars, bfVars, wmVars, faVars, rkVars, csVars, adVars, slVars, fsVars>>
csFrame == <<limVars, callVars, concVars, trVars, bfVars, wmVars, faVars, rkVars, rsVars, adVars, slVars, fsVars>>
adFrame == <<limVars, callVars, concVars, trVars, bfVars, wmVars, faVars, rkVars, rsVars, csVars, slVars, fsVars>>
slFrame == <<limVars, callVars, concVars, trVars, bfVars, wmVars, faVars, rkVars, rsVars, csVars, adVars, fsVars>>
fsFrame == <<limVars, callVars, concVars, trVars, bfVars, wmVars, faVars, rkVars, rsVars, csVars, adVars, slVars>>

---------------------------------------------------------------------------
(* Small helpers *)

Min(a, b) == IF a <= b THEN a ELSE b
Max(a, b) == IF a >= b THEN a ELSE b

---------------------------------------------------------------------------
(* Bounds of the model *)

\* the clock at process start: time.time() is far above min_interval + cooldown,
\* which is all the code needs of it (last_ts starts at 0.0)
EpochStart == 5000
\* Tick stops advancing the clock here
MaxTime == 6400
\* note_ok / note_error / wait calls of the single caller
MaxOps == 5

\* values of --throttle (seconds * 1000): below the 0.05 floor, the default
\* 0.18, exactly max_interval, and above max_interval
Throttles == {0, 180, 1200, 2000}
\* how much longer than asked time.sleep may sleep
OverSleep == {0, 30}
\* clock advances between two statements
TickSteps == {700}

---------------------------------------------------------------------------
(* RateLimiter *)

\* main: RateLimiter(min_interval_s=max(0.05, float(args.throttle)), max_interval_s=1.2)
MinThrottleMs == 50
MainMaxIntervalMs == 1200
MainMinInterval(throttle) == Max(MinThrottleMs, throttle)

\* note_error: min(max_interval_s, max(_cooldown * 1.6, min_interval_s))
note_error(cd, mn, mx) == Min(mx, Max((cd * 16) \div 10, mn))

\* note_ok: max(0.0, _cooldown * 0.85 - 0.01)
note_ok_NoClamp(cd) == (cd * 85) \div 100 - 10
note_ok(cd) == Max(0, (cd * 85) \div 100 - 10)

\* wait: target = _last_ts + min_interval_s + _cooldown
WaitTarget_NoCooldown(last, mn, cd) == last + mn
WaitTarget(last, mn, cd) == last + mn + cd

\* time.sleep(secs) called at clock t: the clock when it returns
time_sleep(t, secs, over) == t + secs + over

LimiterInit ==
    /\ \E th \in Throttles :
          /\ min_interval_s = MainMinInterval(th)
          /\ max_interval_s = MainMaxIntervalMs
    /\ last_ts = 0
    /\ cooldown = 0
    /\ now = EpochStart

\* the clock moves on its own
Tick ==
    /\ \E d \in TickSteps : now + d <= MaxTime /\ now' = now + d
    /\ UNCHANGED <<min_interval_s, max_interval_s, last_ts, cooldown>>

---------------------------------------------------------------------------
(* Several workers sharing one RateLimiter.  The class holds no lock, so   *)
(* the workers' statements interleave between the reads and the writes of  *)
(* _last_ts and _cooldown:                                                 *)
(*   wait:        read clock, _last_ts, _cooldown | sleep | write _last_ts *)
(*   note_error:  read _cooldown | write _cooldown                         *)
(*   note_ok:     read _cooldown | write _cooldown                         *)

NumWorkers == 2
Workers == 1..NumWorkers
\* calls the workers start, all together
MaxConcOps == 4

ConcInit ==
    /\ c_pc = [w \in Workers |-> "idle"]
    /\ c_now = [w \in Workers |-> 0]
    /\ c_target = [w \in Workers |-> 0]
    /\ c_cd = [w \in Workers |-> 0]
    /\ c_ops = 0
    /\ c_prevRet = 0
    /\ c_lastRet = 0
    /\ c_nrets = 0
    /\ c_cdSerial = 0

\* now = time.time(); target = self._last_ts + self.min_interval_s + self._cooldown
C_wait_read(w) ==
    /\ c_pc[w] = "idle" /\ c_ops < MaxConcOps
    /\ c_now' = [c_now EXCEPT ![w] = now]
    /\ c_target' = [c_target EXCEPT ![w] = WaitTarget(last_ts, min_interval_s, cooldown)]
    /\ c_pc' = [c_pc EXCEPT ![w] =
                  IF now < WaitTarget(last_ts, min_interval_s, cooldown)
                  THEN "sleep" ELSE "stamp"]
    /\ c_ops' = c_ops + 1
    /\ UNCHANGED <<c_cd, c_prevRet, c_lastRet, c_nrets, c_cdSerial>>
    /\ UNCHANGED limVars
    /\ UNCHANGED concFrame

\* time.sleep(target - now): the clock is at least c_now + (target - c_now) after it
C_wait_sleep(w) ==
    /\ c_pc[w] = "sleep"
    /\ \E over \in OverSleep :
          now' = Max(now, time_sleep(c_now[w], c_target[w] - c_now[w], over))
    /\ c_pc' = [c_pc EXCEPT ![w] = "stamp"]
    /\ UNCHANGED <<c_now, c_target, c_cd, c_ops, c_prevRet, c_lastRet, c_nrets, c_cdSerial>>
    /\ UNCHANGED <<min_interval_s, max_interval_s, last_ts, cooldown>>
    /\ UNCHANGED concFrame

\* self._last_ts = time.time(); return
C_wait_stamp(w) ==
    /\ c_pc[w] = "stamp"
    /\ last_ts' = now
    /\ c_pc' = [c_pc EXCEPT ![w] = "idle"]
    /\ c_prevRet' = c_lastRet
    /\ c_lastRet' = now
    /\ c_nrets' = c_nrets + 1
    /\ UNCHANGED <<c_now, c_target, c_cd, c_ops, c_cdSerial>>
    /\ UNCHANGED <<min_interval_s, max_interval_s, cooldown, now>>
    /\ UNCHANGED concFrame

\* note_error, the read of self._cooldown
C_note_error_read(w) ==
    /\ c_pc[w] = "idle" /\ c_ops < MaxConcOps
    /\ c_cd' = [c_cd EXCEPT ![w] = cooldown]
    /\ c_pc' = [c_pc EXCEPT ![w] = "err_write"]
    /\ c_ops' = c_ops + 1
    /\ UNCHANGED <<c_now, c_target, c_prevRet, c_lastRet, c_nrets, c_cdSerial>>
    /\ UNCHANGED limVars
    /\ UNCHANGED concFrame

\* note_error, the write of self._cooldown
C_note_error_write(w) ==
    /\ c_pc[w] = "err_write"
    /\ cooldown' = note_error(c_cd[w], min_interval_s, max_interval_s)
    /\ c_cdSerial' = note_error(c_cdSerial, min_interval_s, max_interval_s)
    /\ c_pc' = [c_pc EXCEPT ![w] = "idle"]
    /\ UNCHANGED <<c_now, c_target, c_cd, c_ops, c_prevRet, c_lastRet, c_nrets>>
    /\ UNCHANGED <<min_interval_s, max_interval_s, last_ts, now>>
    /\ UNCHANGED concFrame

\* note_ok, the read of self._cooldown
C_note_ok_read(w) ==
    /\ c_pc[w] = "idle" /\ c_ops < MaxConcOps
    /\ c_cd' = [c_cd EXCEPT ![w] = cooldown]
    /\ c_pc' = [c_pc EXCEPT ![w] = "ok_write"]
    /\ c_ops' = c_ops + 1
    /\ UNCHANGED <<c_now, c_target, c_prevRet, c_lastRet, c_nrets, c_cdSerial>>
    /\ UNCHANGED limVars
    /\ UNCHANGED concFrame

\* note_ok, the write of self._cooldown
C_note_ok_write(w) ==
    /\ c_pc[w] = "ok_write"
    /\ cooldown' = note_ok(c_cd[w])
    /\ c_cdSerial' = note_ok(c_cdSerial)
    /\ c_pc' = [c_pc EXCEPT ![w] = "idle"]
    /\ UNCHANGED <<c_now, c_target, c_cd, c_ops, c_prevRet, c_lastRet, c_nrets>>
    /\ UNCHANGED <<min_interval_s, max_interval_s, last_ts, now>>
    /\ UNCHANGED concFrame

C_tick == Tick /\ UNCHANGED <<concVars, concFrame>>

---------------------------------------------------------------------------
(* One caller of the RateLimiter: any sequence of wait / note_ok /        *)
(* note_error.  wait is three steps: read the clock and the target, sleep *)
(* when early, stamp _last_ts.                                            *)

CallerInit ==
    /\ l_pc = "idle"
    /\ l_now = 0
    /\ l_target = 0
    /\ l_ops = 0
    /\ l_lastOp = "none"
    /\ l_prevRet = 0
    /\ l_cdAtCall = 0
    /\ l_slept = FALSE
    /\ l_waits = 0

L_note_error ==
    /\ l_pc = "idle" /\ l_ops < MaxOps
    /\ cooldown' = note_error(cooldown, min_interval_s, max_interval_s)
    /\ l_lastOp' = "note_error"
    /\ l_ops' = l_ops + 1
    /\ UNCHANGED <<min_interval_s, max_interval_s, last_ts, now>>
    /\ UNCHANGED <<l_pc, l_now, l_target, l_prevRet, l_cdAtCall, l_slept, l_waits>>
    /\ UNCHANGED callerFrame

L_note_ok ==
    /\ l_pc = "idle" /\ l_ops < MaxOps
    /\ cooldown' = note_ok(cooldown)
    /\ l_lastOp' = "note_ok"
    /\ l_ops' = l_ops + 1
    /\ UNCHANGED <<min_interval_s, max_interval_s, last_ts, now>>
    /\ UNCHANGED <<l_pc, l_now, l_target, l_prevRet, l_cdAtCall, l_slept, l_waits>>
    /\ UNCHANGED callerFrame

\* now = time.time(); target = ...; if now < target
L_wait_call ==
    /\ l_pc = "idle" /\ l_ops < MaxOps
    /\ l_now' = now
    /\ l_target' = WaitTarget(last_ts, min_interval_s, cooldown)
    /\ l_prevRet' = last_ts
    /\ l_cdAtCall' = cooldown
    /\ l_slept' = FALSE
    /\ l_pc' = IF now < WaitTarget(last_ts, min_interval_s, cooldown) THEN "sleep" ELSE "stamp"
    /\ l_ops' = l_ops + 1
    /\ UNCHANGED <<l_lastOp, l_waits>>
    /\ UNCHANGED limVars
    /\ UNCHANGED callerFrame

\* time.sleep(target - now)
L_wait_sleep ==
    /\ l_pc = "sleep"
    /\ \E over \in OverSleep : now' = time_sleep(now, l_target - l_now, over)
    /\ l_slept' = TRUE
    /\ l_pc' = "stamp"
    /\ UNCHANGED <<min_interval_s, max_interval_s, last_ts, cooldown>>
    /\ UNCHANGED <<l_now, l_target, l_ops, l_lastOp, l_prevRet, l_cdAtCall, l_waits>>
    /\ UNCHANGED callerFrame

\* self._last_ts = time.time(); return
L_wait_stamp ==
    /\ l_pc = "stamp"
    /\ last_ts' = now
    /\ l_pc' = "idle"
    /\ l_lastOp' = "wait"
    /\ l_waits' = l_waits + 1
    /\ UNCHANGED <<min_interval_s, max_interval_s, cooldown, now>>
    /\ UNCHANGED <<l_now, l_target, l_ops, l_prevRet, l_cdAtCall, l_slept>>
    /\ UNCHANGED callerFrame

L_tick == Tick /\ UNCHANGED <<callVars, callerFrame>>

---------------------------------------------------------------------------
(* HLClient transport: one call of _post_json (POST to /info) or _get_json  *)
(* (GET of the leaderboard).  Both run the same loop                        *)
(*     for attempt in range(retries + 1): wait; send; classify              *)
(* and differ only in the verb and the debug prints.                        *)

\* --retries values: -1 .. MaxRetries (argparse takes any int; a negative one
\* gives an empty range and the final "return None")
MaxRetries == 2
\* calls made one after another through the same client
MaxCalls == 2

\* RetryCfg defaults (main sets only retries and timeout_s)
BackoffBaseMs == 800
BackoffCapMs == 10000
JitterMs == 250

\* the request types of HLClient and the transport function each goes through
RequestTypes == {"leaderboard", "batchClearinghouseStates", "clearinghouseState"}
Verb(type) == IF type = "leaderboard" THEN "GET" ELSE "POST"

\* what the upstream can answer to one attempt: a transport exception
\* (timeout, connection error), or a status with a body that parses or not
Statuses == {200, 204, 404, 429, 500, 501, 502, 503, 504}
Bodies == {"json_a", "json_b"}
Outcomes ==
    {[exc |-> TRUE, status |-> 0, body |-> "unparsable"]}
    \cup {[exc |-> FALSE, status |-> 200, body |-> b] : b \in Bodies \cup {"unparsable"}}
    \cup {[exc |-> FALSE, status |-> st, body |-> "unparsable"] : st \in Statuses \ {200}}
NoOutcome == [exc |-> FALSE, status |-> 0, body |-> "unparsable"]

\* r.status_code in (429, 500, 502, 503, 504)
IsRetryStatus_With404(status) == status \in {404, 429, 500, 502, 503, 504}
IsRetryStatus(status) == status \in {429, 500, 502, 503, 504}

\* for attempt in range(self.retry.retries + 1)
InRange_OneMore(a, r) == a < r + 2
InRange(a, r) == a < r + 1

\* if attempt < self.retry.retries: self._sleep_backoff(attempt); continue
MayRetry(a, r) == a < r

\* _sleep_backoff: base = min(backoff_cap_s, backoff_base_s * (2 ** attempt))
BackoffBase(a) == Min(BackoffCapMs, BackoffBaseMs * (2 ^ a))
\* jitter = random.random() * jitter_s, in [0, jitter_s)
Jitters == {0, JitterMs - 1}

TransportInit ==
    /\ retries \in -1..MaxRetries
    /\ t_pc = "idle"
    /\ t_type = "none"
    /\ attempt = 0
    /\ t_outcome = NoOutcome
    /\ t_result = "pending"
    /\ t_notes = <<>>
    /\ t_lastSleep = 0
    /\ t_allRetryable = TRUE
    /\ nWait = 0 /\ nSend = 0 /\ nSleep = 0 /\ nNoteOk = 0 /\ nNoteErr = 0
    /\ totWait = 0 /\ totSend = 0
    /\ t_calls = 0

\* a caller enters _post_json / _get_json
T_call ==
    /\ t_pc \in {"idle", "done"} /\ t_calls < MaxCalls
    /\ \E ty \in RequestTypes : t_type' = ty
    /\ t_pc' = "loop"
    /\ attempt' = 0
    /\ t_outcome' = NoOutcome
    /\ t_result' = "pending"
    /\ t_notes' = <<>>
    /\ t_lastSleep' = 0
    /\ t_allRetryable' = TRUE
    /\ nWait' = 0 /\ nSend' = 0 /\ nSleep' = 0 /\ nNoteOk' = 0 /\ nNoteErr' = 0
    /\ t_calls' = t_calls + 1
    /\ UNCHANGED <<retries, totWait, totSend>>
    /\ UNCHANGED limVars
    /\ UNCHANGED trFrame

\* the range is exhausted: the "return None" after the loop
T_loop_exit ==
    /\ t_pc = "loop" /\ ~InRange(attempt, retries)
    /\ t_result' = "None"
    /\ t_pc' = "done"
    /\ UNCHANGED <<retries, t_type, attempt, t_outcome, t_notes, t_lastSleep, t_allRetryable,
                   nWait, nSend, nSleep, nNoteOk, nNoteErr, totWait, totSend, t_calls>>
    /\ UNCHANGED limVars
    /\ UNCHANGED trFrame

\* a loop that paces only the first attempt of a call
T_wait_FirstOnly ==
    /\ t_pc = "loop" /\ InRange(attempt, retries)
    /\ LET target == WaitTarget(last_ts, min_interval_s, cooldown) IN
         \E over \in OverSleep :
            /\ now' = IF attempt = 0 /\ now < target
                      THEN time_sleep(now, target - now, over) ELSE now
            /\ last_ts' = IF attempt = 0 THEN now' ELSE last_ts
    /\ nWait' = IF attempt = 0 THEN nWait + 1 ELSE nWait
    /\ totWait' = IF attempt = 0 THEN totWait + 1 ELSE totWait
    /\ t_pc' = "send"
    /\ UNCHANGED <<retries, t_type, attempt, t_outcome, t_result, t_notes, t_lastSleep,
                   t_allRetryable, nSend, nSleep, nNoteOk, nNoteErr, totSend, t_calls>>
    /\ UNCHANGED <<min_interval_s, max_interval_s, cooldown>>
    /\ UNCHANGED trFrame

\* self.limiter.wait(), the whole of it: sleep to the target when early, stamp _last_ts
T_wait ==
    /\ t_pc = "loop" /\ InRange(attempt, retries)
    /\ LET target == WaitTarget(last_ts, min_interval_s, cooldown) IN
         \E over \in OverSleep :
            /\ now' = IF now < target THEN time_sleep(now, target - now, over) ELSE now
            /\ last_ts' = now'
    /\ nWait' = nWait + 1
    /\ totWait' = totWait + 1
    /\ t_pc' = "send"
    /\ UNCHANGED <<retries, t_type, attempt, t_outcome, t_result, t_notes, t_lastSleep,
                   t_allRetryable, nSend, nSleep, nNoteOk, nNoteErr, totSend, t_calls>>
    /\ UNCHANGED <<min_interval_s, max_interval_s, cooldown>>
    /\ UNCHANGED trFrame

\* the outcomes the claims call retryable: a transport exception, 429, any 5xx,
\* or 200 with a body that does not parse
ClaimedRetryable(o) ==
    \/ o.exc
    \/ o.status = 429
    \/ o.status \in 500..599
    \/ (o.status = 200 /\ o.body = "unparsable")

\* r = self.sess.post(...) / self.sess.get(...): the upstream answers
T_send ==
    /\ t_pc = "send"
    /\ \E o \in Outcomes :
          /\ t_outcome' = o
          /\ t_allRetryable' = (t_allRetryable /\ ClaimedRetryable(o))
    /\ t_notes' = <<>>
    /\ nSend' = nSend + 1
    /\ totSend' = totSend + 1
    /\ t_pc' = "handle"
    /\ UNCHANGED <<retries, t_type, attempt, t_result, t_lastSleep,
                   nWait, nSleep, nNoteOk, nNoteErr, totWait, t_calls>>
    /\ UNCHANGED limVars
    /\ UNCHANGED trFrame

\* the common tail of the three retryable branches:
\*   self.limiter.note_error(); if attempt < retries: _sleep_backoff; continue / return None
RetryableTail ==
    /\ cooldown' = note_error(cooldown, min_interval_s, max_interval_s)
    /\ t_notes' = Append(t_notes, "error")
    /\ nNoteErr' = nNoteErr + 1
    /\ IF MayRetry(attempt, retries)
       THEN t_pc' = "backoff" /\ t_result' = t_result
       ELSE t_pc' = "done" /\ t_result' = "None"
    /\ UNCHANGED <<retries, t_type, attempt, t_outcome, t_lastSleep, t_allRetryable,
                   nWait, nSend, nSleep, nNoteOk, totWait, totSend, t_calls>>
    /\ UNCHANGED <<min_interval_s, max_interval_s, last_ts, now>>
    /\ UNCHANGED trFrame

\* status 200 and r.json() parses: note_ok(); return out
T_ok ==
    /\ t_pc = "handle" /\ ~t_outcome.exc
    /\ t_outcome.status = 200 /\ t_outcome.body # "unparsable"
    /\ cooldown' = note_ok(cooldown)
    /\ t_notes' = Append(t_notes, "ok")
    /\ nNoteOk' = nNoteOk + 1
    /\ t_result' = t_outcome.body
    /\ t_pc' = "done"
    /\ UNCHANGED <<retries, t_type, attempt, t_outcome, t_lastSleep, t_allRetryable,
                   nWait, nSend, nSleep, nNoteErr, totWait, totSend, t_calls>>
    /\ UNCHANGED <<min_interval_s, max_interval_s, last_ts, now>>
    /\ UNCHANGED trFrame

\* status 200 and r.json() raises: the inner except
T_bad_json ==
    /\ t_pc = "handle" /\ ~t_outcome.exc
    /\ t_outcome.status = 200 /\ t_outcome.body = "unparsable"
    /\ RetryableTail

\* status in (429, 500, 502, 503, 504)
T_retry_status ==
    /\ t_pc = "handle" /\ ~t_outcome.exc
    /\ t_outcome.status # 200 /\ IsRetryStatus(t_outcome.status)
    /\ RetryableTail

\* a fatal branch that returns None without telling the Governor
T_fatal_status_Silent ==
    /\ t_pc = "handle" /\ ~t_outcome.exc
    /\ t_outcome.status # 200 /\ ~IsRetryStatus(t_outcome.status)
    /\ t_result' = "None"
    /\ t_pc' = "done"
    /\ UNCHANGED <<retries, t_type, attempt, t_outcome, t_notes, t_lastSleep, t_allRetryable,
                   nWait, nSend, nSleep, nNoteOk, nNoteErr, totWait, totSend, t_calls>>
    /\ UNCHANGED limVars
    /\ UNCHANGED trFrame

\* any other status: note_ok(); return None
T_fatal_status ==
    /\ t_pc = "handle" /\ ~t_outcome.exc
    /\ t_outcome.status # 200 /\ ~IsRetryStatus(t_outcome.status)
    /\ cooldown' = note_ok(cooldown)
    /\ t_notes' = Append(t_notes, "ok")
    /\ nNoteOk' = nNoteOk + 1
    /\ t_result' = "None"
    /\ t_pc' = "done"
    /\ UNCHANGED <<retries, t_type, attempt, t_outcome, t_lastSleep, t_allRetryable,
                   nWait, nSend, nSleep, nNoteErr, totWait, totSend, t_calls>>
    /\ UNCHANGED <<min_interval_s, max_interval_s, last_ts, now>>
    /\ UNCHANGED trFrame

\* sess.post / sess.get raised: the outer except
T_exception ==
    /\ t_pc = "handle" /\ t_outcome.exc
    /\ RetryableTail

\* self._sleep_backoff(attempt); continue
T_sleep_backoff ==
    /\ t_pc = "backoff"
    /\ \E j \in Jitters : \E over \in OverSleep :
          /\ t_lastSleep' = BackoffBase(attempt) + j
          /\ now' = time_sleep(now, BackoffBase(attempt) + j, over)
    /\ nSleep' = nSleep + 1
    /\ attempt' = attempt + 1
    /\ t_pc' = "loop"
    /\ UNCHANGED <<retries, t_type, t_outcome, t_result, t_notes, t_allRetryable,
                   nWait, nSend, nNoteOk, nNoteErr, totWait, totSend, t_calls>>
    /\ UNCHANGED <<min_interval_s, max_interval_s, last_ts, cooldown>>
    /\ UNCHANGED trFrame

---------------------------------------------------------------------------
(* Adaptive batch fetcher: batch_clearinghouse_states_adaptive.  The        *)
(* recursion is a stack of activations; each holds its chunk list, the     *)
(* index of the chunk in hand, its own states dict and failed list.  A     *)
(* request is one call of _post_json, whose return value (None or the      *)
(* parsed body) is any of the values below.                                *)

\* how many identifiers main passes, at most
MaxUsers == 4
\* --batch-size, from 1 up to this
MaxBatchSize == 4
\* --min-batch-size, from 0 up to this
MaxMinBatchSize == 2

AllUsers == <<"u1", "u2", "u3", "u4", "u5", "u6">>

Range(seq) == {seq[i] : i \in 1..Len(seq)}

\* chunks(lst, n): lst[i : i + n] for i in range(0, len(lst), n), for n > 0
\* (range raises ValueError for n = 0, and is empty for n < 0)
chunks(lst, n) ==
    IF n <= 0 THEN <<>>
    ELSE [c \in 1..((Len(lst) + n - 1) \div n) |->
            SubSeq(lst, (c - 1) * n + 1, Min(c * n, Len(lst)))]

\* dedupe_keep_order
RECURSIVE DedupeFrom(_, _, _)
DedupeFrom(items, i, out) ==
    IF i > Len(items) THEN out
    ELSE IF items[i] \in Range(out) THEN DedupeFrom(items, i + 1, out)
    ELSE DedupeFrom(items, i + 1, Append(out, items[i]))
\* a dedupe that keeps every item
dedupe_keep_order_KeepsAll(items) == items
dedupe_keep_order(items) == DedupeFrom(items, 1, <<>>)

\* a dict as a function on its keys
EmptyDict == [a \in {} |-> <<>>]
\* d[k] = v
DictSet(d, k, v) == [a \in DOMAIN d \cup {k} |-> IF a = k THEN v ELSE d[a]]
\* d.update(e)
DictUpdate(d, e) == [a \in DOMAIN d \cup DOMAIN e |-> IF a \in DOMAIN e THEN e[a] ELSE d[a]]

\* what _post_json can return for {"type": "batchClearinghouseStates", "users": part}:
\* None; a body that is no list; a list one short; a list of the right length whose
\* element i is the state of part[i] (a dict) or something else
BatchResponses(part) ==
    {<<"none", <<>>>>, <<"dict", <<>>>>}
    \cup {<<"list", [i \in 1..(Len(part) - 1) |-> <<"dict", part[i]>>]>>}
    \cup {<<"list", [i \in 1..Len(part) |-> IF i \in bad THEN <<"bad", part[i]>>
                                                        ELSE <<"dict", part[i]>>]>>
            : bad \in SUBSET (1..Len(part))}

\* isinstance(resp, list) and len(resp) == len(part)
ResponseMatches(resp, part) == resp[1] = "list" /\ Len(resp[2]) = Len(part)

\* for addr, st in zip(part, resp): states[addr] = st if isinstance(st, dict) else failed.append(addr)
RECURSIVE ZipFrom(_, _, _, _, _)
ZipFrom(part, elems, i, st, fl) ==
    IF i > Len(part) \/ i > Len(elems) THEN <<st, fl>>
    ELSE IF elems[i][1] = "dict"
         THEN ZipFrom(part, elems, i + 1, DictSet(st, part[i], elems[i]), fl)
         ELSE ZipFrom(part, elems, i + 1, st, Append(fl, part[i]))
ZipResponse_FirstElem(part, elems, st, fl) ==
    ZipFrom(part, [i \in 1..Len(elems) |-> elems[1]], 1, st, fl)
ZipResponse_DropsBad(part, elems, st, fl) ==
    <<ZipFrom(part, elems, 1, st, fl)[1], fl>>
ZipResponse(part, elems, st, fl) == ZipFrom(part, elems, 1, st, fl)

\* what clearinghouse_state(addr) gets from _post_json: None, a state (a
\* non-empty dict), an empty dict, or a body that is no dict
PerUserResponses(addr) ==
    {<<"none", addr>>, <<"dict", addr>>, <<"emptydict", addr>>, <<"list", addr>>}
\* clearinghouse_state returns the dict or None, and "if st:" takes a non-empty dict
PerUserOk(resp) == resp[1] = "dict"

\* if len(part) > min_batch_size
ShouldSplit(part) == Len(part) > min_batch_size
\* mid = len(part) // 2; left = part[:mid]; right = part[mid:]
SplitLeft(part) == SubSeq(part, 1, Len(part) \div 2)
\* a right half that starts one element late
SplitRight_DropsFirst(part) == SubSeq(part, (Len(part) \div 2) + 2, Len(part))
SplitRight(part) == SubSeq(part, (Len(part) \div 2) + 1, Len(part))
\* batch_size=max(min_batch_size, len(half))
SubBatchSize(half) == Max(min_batch_size, Len(half))

\* failed = [a for a in dedupe_keep_order(failed) if a not in states]
FinalFailed(failed, states) ==
    SelectSeq(dedupe_keep_order(failed), LAMBDA a : a \notin DOMAIN states)

\* a fresh activation: states = {}, failed = [], parts = list(chunks(users, batch_size))
Activation(us, bs) ==
    [parts |-> chunks(us, bs), pi |-> 1, states |-> EmptyDict, failed |-> <<>>,
     stage |-> "loop", k |-> 0]

BatchInit ==
    /\ \E n \in 0..MaxUsers : users = SubSeq(AllUsers, 1, n)
    /\ batch_size \in 1..MaxBatchSize
    /\ min_batch_size \in 0..MaxMinBatchSize
    /\ fallback_per_user \in BOOLEAN
    /\ bf_pc = "idle"
    /\ bf_stack = <<>>
    /\ bf_states = EmptyDict
    /\ bf_failed = <<>>
    /\ bf_nBatch = 0
    /\ bf_perUser = [a \in Range(users) |-> 0]
    /\ bf_log = <<>>

Top == bf_stack[Len(bf_stack)]
CurPart == Top.parts[Top.pi]
InLoop == bf_pc = "running" /\ Top.stage = "loop" /\ Top.pi <= Len(Top.parts)
WithTop(f) == [bf_stack EXCEPT ![Len(bf_stack)] = f]
bfArgs == <<users, batch_size, min_batch_size, fallback_per_user>>

\* main calls the fetcher
BF_call ==
    /\ bf_pc = "idle"
    /\ bf_pc' = "running"
    /\ bf_stack' = <<Activation(users, batch_size)>>
    /\ UNCHANGED <<bfArgs, bf_states, bf_failed, bf_nBatch, bf_perUser, bf_log>>
    /\ UNCHANGED bfFrame

\* one batched request whose answer is a list of the chunk's length: pair and go on
BF_batch_matched ==
    /\ InLoop
    /\ \E resp \in BatchResponses(CurPart) :
          /\ ResponseMatches(resp, CurPart)
          /\ LET z == ZipResponse(CurPart, resp[2], Top.states, Top.failed) IN
               bf_stack' = WithTop([Top EXCEPT !.states = z[1], !.failed = z[2],
                                               !.pi = Top.pi + 1])
          /\ bf_log' = Append(bf_log, <<"batch", CurPart, TRUE, resp[2]>>)
    /\ bf_nBatch' = bf_nBatch + 1
    /\ UNCHANGED <<bfArgs, bf_pc, bf_states, bf_failed, bf_perUser>>
    /\ UNCHANGED bfFrame

\* one batched request that failed on a chunk above min_batch_size: recurse on the left half
BF_batch_split ==
    /\ InLoop
    /\ \E resp \in BatchResponses(CurPart) : ~ResponseMatches(resp, CurPart)
    /\ ShouldSplit(CurPart)
    /\ SubBatchSize(SplitLeft(CurPart)) # 0
    /\ bf_stack' = Append(WithTop([Top EXCEPT !.stage = "left"]),
                          Activation(SplitLeft(CurPart), SubBatchSize(SplitLeft(CurPart))))
    /\ bf_nBatch' = bf_nBatch + 1
    /\ bf_log' = Append(bf_log, <<"batch", CurPart, FALSE, <<>>>>)
    /\ UNCHANGED <<bfArgs, bf_pc, bf_states, bf_failed, bf_perUser>>
    /\ UNCHANGED bfFrame

\* the same, when the left half is empty and min_batch_size is 0: the recursive
\* call's chunks(left, 0) raises ValueError (range() arg 3 must not be zero)
BF_batch_split_raises ==
    /\ InLoop
    /\ \E resp \in BatchResponses(CurPart) : ~ResponseMatches(resp, CurPart)
    /\ ShouldSplit(CurPart)
    /\ SubBatchSize(SplitLeft(CurPart)) = 0
    /\ bf_pc' = "raised"
    /\ bf_nBatch' = bf_nBatch + 1
    /\ bf_log' = Append(bf_log, <<"batch", CurPart, FALSE, <<>>>>)
    /\ UNCHANGED <<bfArgs, bf_stack, bf_states, bf_failed, bf_perUser>>
    /\ UNCHANGED bfFrame

\* one batched request that failed on a smallest chunk: go to the per-user loop
BF_batch_to_per_user ==
    /\ InLoop
    /\ \E resp \in BatchResponses(CurPart) : ~ResponseMatches(resp, CurPart)
    /\ ~ShouldSplit(CurPart)
    /\ fallback_per_user
    /\ bf_stack' = WithTop([Top EXCEPT !.stage = "peruser", !.k = 1])
    /\ bf_nBatch' = bf_nBatch + 1
    /\ bf_log' = Append(bf_log, <<"batch", CurPart, FALSE, <<>>>>)
    /\ UNCHANGED <<bfArgs, bf_pc, bf_states, bf_failed, bf_perUser>>
    /\ UNCHANGED bfFrame

\* ... or, without the fallback, failed.extend(part)
BF_batch_no_fallback ==
    /\ InLoop
    /\ \E resp \in BatchResponses(CurPart) : ~ResponseMatches(resp, CurPart)
    /\ ~ShouldSplit(CurPart)
    /\ ~fallback_per_user
    /\ bf_stack' = WithTop([Top EXCEPT !.failed = Top.failed \o CurPart, !.pi = Top.pi + 1])
    /\ bf_nBatch' = bf_nBatch + 1
    /\ bf_log' = Append(bf_log, <<"batch", CurPart, FALSE, <<>>>>)
    /\ UNCHANGED <<bfArgs, bf_pc, bf_states, bf_failed, bf_perUser>>
    /\ UNCHANGED bfFrame

\* st = self.clearinghouse_state(addr) for the next addr of the chunk
BF_per_user ==
    /\ bf_pc = "running" /\ Top.stage = "peruser"
    /\ LET addr == CurPart[Top.k]
           last == Top.k = Len(CurPart)
       IN
         /\ \E resp \in PerUserResponses(addr) :
             /\ bf_log' = Append(bf_log, <<"user", <<addr>>, PerUserOk(resp), <<resp>>>>)
             /\ bf_stack' = WithTop(
                  [Top EXCEPT
                     !.states = IF PerUserOk(resp) THEN DictSet(Top.states, addr, resp) ELSE @,
                     !.failed = IF PerUserOk(resp) THEN @ ELSE Append(@, addr),
                     !.k = IF last THEN 0 ELSE Top.k + 1,
                     !.stage = IF last THEN "loop" ELSE "peruser",
                     !.pi = IF last THEN Top.pi + 1 ELSE Top.pi])
         /\ bf_perUser' = [bf_perUser EXCEPT ![addr] = @ + 1]
    /\ UNCHANGED <<bfArgs, bf_pc, bf_states, bf_failed, bf_nBatch>>
    /\ UNCHANGED bfFrame

Finished == bf_pc = "running" /\ Top.stage = "loop" /\ Top.pi > Len(Top.parts)
Caller == bf_stack[Len(bf_stack) - 1]
\* the caller's dict and list after states.update(sub_states); failed.extend(sub_failed)
Merged == [Caller EXCEPT
             !.states = DictUpdate(Caller.states, Top.states),
             !.failed = Caller.failed \o FinalFailed(Top.failed, Top.states)]

\* the call on the left half returns: merge, then recurse on the right half
BF_return_left ==
    /\ Finished /\ Len(bf_stack) >= 2 /\ Caller.stage = "left"
    /\ LET right == SplitRight(Caller.parts[Caller.pi]) IN
         bf_stack' = [i \in 1..Len(bf_stack) |->
                        IF i = Len(bf_stack) THEN Activation(right, SubBatchSize(right))
                        ELSE IF i = Len(bf_stack) - 1 THEN [Merged EXCEPT !.stage = "right"]
                        ELSE bf_stack[i]]
    /\ UNCHANGED <<bfArgs, bf_pc, bf_states, bf_failed, bf_nBatch, bf_perUser, bf_log>>
    /\ UNCHANGED bfFrame

\* the call on the right half returns: merge; continue with the next chunk
BF_return_right ==
    /\ Finished /\ Len(bf_stack) >= 2 /\ Caller.stage = "right"
    /\ bf_stack' = [i \in 1..(Len(bf_stack) - 1) |->
                      IF i = Len(bf_stack) - 1
                      THEN [Merged EXCEPT !.stage = "loop", !.pi = Caller.pi + 1]
                      ELSE bf_stack[i]]
    /\ UNCHANGED <<bfArgs, bf_pc, bf_states, bf_failed, bf_nBatch, bf_perUser, bf_log>>
    /\ UNCHANGED bfFrame

\* the outermost call returns (states, failed) to main
BF_return ==
    /\ Finished /\ Len(bf_stack) = 1
    /\ bf_states' = Top.states
    /\ bf_failed' = FinalFailed(Top.failed, Top.states)
    /\ bf_stack' = <<>>
    /\ bf_pc' = "returned"
    /\ UNCHANGED <<bfArgs, bf_nBatch, bf_perUser, bf_log>>
    /\ UNCHANGED bfFrame

---------------------------------------------------------------------------
(* Window metrics: window_return_metrics, with stdev and max_drawdown.      *)
(* A float is None (Null), or an exact fraction <<"num", n, d>> in lowest   *)
(* terms with d > 0.  The square root of stdev is not computed: a standard  *)
(* deviation is <<"stdev", the returns it is taken over, 0>>.               *)

\* points of account_values, at most
MaxAvLen == 3
\* points of pnls, at most
MaxPnlLen == 2

\* baseline_eps = 1e-9, the unit of the account values here
BaselineEps == 1
\* points of the longer account_values series, at strictly increasing or
\* strictly decreasing timestamps
LongAvLen == 4
\* the floats that math.isfinite rejects: nan compares False with everything,
\* inf exceeds every number
NaN == -999999
Inf == 999999
IsFinite(v) == v # NaN /\ v # Inf
\* the result of float arithmetic on a nan or an inf operand
NaNFloat == <<"nan", 0, 0>>
InfFloat == <<"inf", 0, 0>>

\* account values: zero, epsilon itself, two usable ones, and the two that
\* float() makes of "nan" and "inf"
AvValues == {0, 1, 100, 110, NaN, Inf}
Timestamps == 1..3
AvPoints == {<<ts, v>> : ts \in Timestamps, v \in AvValues}
PnlPoints == {<<ts, v>> : ts \in {1, 3}, v \in {0, 5}}

SeqsUpTo(S, n) == UNION {[1..k -> S] : k \in 0..n}
\* series of LongAvLen points, timestamps 1, 2, ... in order or reversed
LongAvSeries ==
    {[i \in 1..LongAvLen |-> <<IF up THEN i ELSE LongAvLen + 1 - i, v[i]>>] :
        v \in [1..LongAvLen -> AvValues], up \in BOOLEAN}

Abs(x) == IF x < 0 THEN -x ELSE x
RECURSIVE GCD(_, _)
GCD(a, b) == IF b = 0 THEN a ELSE GCD(b, a % b)
Null == <<"null", 0, 0>>
\* the fraction n / d, d # 0
Rat(n, d) ==
    LET g == GCD(Abs(n), Abs(d))
        sgn == IF d < 0 THEN -1 ELSE 1
    IN <<"num", (sgn * n) \div g, (sgn * d) \div g>>
RatGreater(a, b) == a[2] * b[3] > b[2] * a[3]
\* x * 100.0
Times100(x) == IF x = Null THEN Null ELSE Rat(x[2] * 100, x[3])

\* sorted(points, key=lambda x: x[0]): stable, ascending timestamps
InsertByTs(sorted, p) ==
    LET n == Cardinality({i \in 1..Len(sorted) : sorted[i][1] <= p[1]}) IN
      SubSeq(sorted, 1, n) \o <<p>> \o SubSeq(sorted, n + 1, Len(sorted))
\* a sort that leaves the points as supplied
SortByTs_AsSupplied(points) == points
RECURSIVE SortFrom(_, _, _)
SortFrom(points, i, out) ==
    IF i > Len(points) THEN out ELSE SortFrom(points, i + 1, InsertByTs(out, points[i]))
SortByTs(points) == SortFrom(points, 1, <<>>)

\* stdev: None under 2 values, else the sample standard deviation
stdev(values) == IF Len(values) < 2 THEN Null ELSE <<"stdev", values, 0>>

\* max_drawdown: the loop over the series, peak and mdd carried along
RECURSIVE MddFrom(_, _, _, _)
MddFrom(series, i, peak, mdd) ==
    IF i > Len(series) THEN mdd
    ELSE LET v == series[i]
             pk == IF v > peak THEN v ELSE peak
             dd == IF pk # 0 THEN Rat(pk - v, pk) ELSE Rat(0, 1)
         IN MddFrom(series, i + 1, pk, IF RatGreater(dd, mdd) THEN dd ELSE mdd)
max_drawdown(series) ==
    IF Len(series) < 2 THEN Null ELSE MddFrom(series, 1, series[1], Rat(0, 1))

\* a base_idx that is always the first point of the series
BaseIdx_FirstPoint(av_vals) == IF Len(av_vals) = 0 THEN 0 ELSE 1

\* base_idx: the first index (from 1 here; 0 when there is none) whose value is
\* finite and above baseline_eps
BaseIdx(av_vals) ==
    LET ok == {i \in 1..Len(av_vals) : IsFinite(av_vals[i]) /\ av_vals[i] > BaselineEps} IN
      IF ok = {} THEN 0 ELSE CHOOSE i \in ok : \A j \in ok : i <= j

\* rets: (cur - prev) / prev over consecutive values with prev > baseline_eps
RECURSIVE RetsFrom(_, _, _)
RetsFrom(av_slice, i, rets) ==
    IF i > Len(av_slice) THEN rets
    ELSE RetsFrom(av_slice, i + 1,
                  IF av_slice[i - 1] > BaselineEps
                  THEN Append(rets, Rat(av_slice[i] - av_slice[i - 1], av_slice[i - 1]))
                  ELSE rets)

\* a base_pnl that is always the earliest sample
BasePnl_Earliest(pnls_sorted, base_ts) == pnls_sorted[1][2]

\* base_pnl: the first sample at or after base_ts, else the earliest sample
BasePnl(pnls_sorted, base_ts) ==
    LET at == {i \in 1..Len(pnls_sorted) : pnls_sorted[i][1] >= base_ts} IN
      IF at = {} THEN pnls_sorted[1][2]
      ELSE pnls_sorted[CHOOSE i \in at : \A j \in at : i <= j][2]

AllNull == [growth_pct |-> Null, pnl_pct |-> Null, vol_pct_daily |-> Null,
            max_drawdown_pct |-> Null]

window_return_metrics(win) ==
    LET av == win.account_values
        pnls == win.pnls
    IN
    IF Len(av) < 2 THEN AllNull
    ELSE
      LET av_sorted == SortByTs(av)
          av_vals == [i \in 1..Len(av_sorted) |-> av_sorted[i][2]]
          base_idx == BaseIdx(av_vals)
          slice_start == IF base_idx # 0 THEN base_idx ELSE 1
          av_slice == SelectSeq(SubSeq(av_vals, slice_start, Len(av_vals)), IsFinite)
          rets == RetsFrom(av_slice, 2, <<>>)
          vol == IF Len(av_slice) >= 2 /\ Len(rets) >= 2 THEN stdev(rets) ELSE Null
          mdd == IF Len(av_slice) >= 2 THEN max_drawdown(av_slice) ELSE Null
          has_base == base_idx # 0 /\ base_idx < Len(av_vals)
          base_ts == av_sorted[base_idx][1]
          base_av == av_sorted[base_idx][2]
          end_av == av_vals[Len(av_vals)]
          growth == has_base /\ base_av > BaselineEps
          pnls_sorted == SortByTs(pnls)
      IN
        [growth_pct |->
            IF ~growth THEN Null
            ELSE IF end_av = NaN THEN NaNFloat
            ELSE IF end_av = Inf THEN InfFloat
            ELSE Rat((end_av - base_av) * 100, base_av),
         pnl_pct |->
            IF growth /\ Len(pnls) >= 2
            THEN Rat((pnls_sorted[Len(pnls_sorted)][2] - BasePnl(pnls_sorted, base_ts)) * 100,
                     base_av)
            ELSE Null,
         vol_pct_daily |-> IF vol = Null THEN Null ELSE <<"stdev100", vol[2], 0>>,
         max_drawdown_pct |-> Times100(mdd)]

MetricsInit ==
    /\ wm_win \in [account_values : SeqsUpTo(AvPoints, MaxAvLen) \cup LongAvSeries,
                   pnls : SeqsUpTo(PnlPoints, MaxPnlLen)]
    /\ wm_pc = "input"
    /\ wm_out = AllNull

\* month = window_return_metrics(wins.get("month", {}))
WM_compute ==
    /\ wm_pc = "input"
    /\ wm_out' = window_return_metrics(wm_win)
    /\ wm_pc' = "done"
    /\ UNCHANGED wm_win
    /\ UNCHANGED wmFrame

---------------------------------------------------------------------------
(* Position ages: infer_position_ages_from_fills.  Sizes are integers in    *)
(* units of eps = 1e-10, times are integer milliseconds.                    *)

\* fills in the log, at most
MaxFills == 3

\* a JSON value as the parser hands it over: a number, null, a string that is
\* no number, or a key that is absent
Num(n) == <<"num", n>>
JsonNull == <<"null", 0>>
JsonStr == <<"str", 0>>
Absent == <<"absent", 0>>

\* to_float(x, default): float(x), or default for None and on any exception
to_float(x, default) == IF x[1] = "num" THEN x[2] ELSE default

\* eps = 1e-10, the unit of the sizes here
PosEps == 1
\* utcnow(), in ms
FillNowMs == 10
\* int(t_ms) / 1000 seconds, / 86400.0 days
MsPerDay == 86400000

\* startPosition, side, sz of: an open from flat, a close to flat, a flip, an
\* increase, and an open whose startPosition is not a number
FillShapes ==
    {<<Num(0), "B", Num(4)>>, <<Num(4), "A", Num(4)>>, <<Num(4), "A", Num(8)>>,
     <<Num(4), "B", Num(4)>>, <<JsonStr, "B", Num(4)>>}
FillTimes == {Num(1), Num(2), Num(3), Absent, JsonNull}
Fill(coin, time, shape) ==
    [coin |-> coin, time |-> time, startPosition |-> shape[1], side |-> shape[2],
     sz |-> shape[3]]
FillInputs ==
    {Fill("BTC", t, sh) : t \in FillTimes, sh \in FillShapes}
    \cup {Fill("ETH", Num(1), <<Num(0), "B", Num(4)>>)}
PositionInputs ==
    {<<>>} \cup {<<[coin |-> "BTC", size |-> sz]>> : sz \in {0, 4, -4}}

\* int(x.get("time", 0)), the sort key: raises for None and for a non-number
TimeKeyRaises(f) == f.time[1] \in {"null", "str"}
TimeKey(f) == IF f.time[1] = "absent" THEN 0 ELSE f.time[2]

\* sorted(fs, key=lambda x: int(x.get("time", 0))): stable, ascending
InsertByTime(sorted, f) ==
    LET n == Cardinality({i \in 1..Len(sorted) : TimeKey(sorted[i]) <= TimeKey(f)}) IN
      SubSeq(sorted, 1, n) \o <<f>> \o SubSeq(sorted, n + 1, Len(sorted))
RECURSIVE SortFillsFrom(_, _, _)
SortFillsFrom(fs, i, out) ==
    IF i > Len(fs) THEN out ELSE SortFillsFrom(fs, i + 1, InsertByTime(out, fs[i]))
SortByTime_AsSupplied(fs) == fs
SortByTime(fs) == SortFillsFrom(fs, 1, <<>>)

\* open_time: None, or a datetime (its ms)
NoTime == <<"none", 0>>
At(t) == <<"at", t>>

\* start_pos, delta and end_pos of one fill
StartPos(f) == to_float(f.startPosition, 0)
EndPos(f) == StartPos(f) + (IF f.side = "B" THEN to_float(f.sz, 0) ELSE -to_float(f.sz, 0))
OpensFromFlat(f) == Abs(StartPos(f)) < PosEps /\ Abs(EndPos(f)) > PosEps
ClosesToFlat(f) == Abs(EndPos(f)) < PosEps
FlipsSign(f) == StartPos(f) * EndPos(f) < 0

\* for f in fs_sorted: the three ifs, in the order of the code
RECURSIVE ReplayFrom(_, _, _)
ReplayFrom(fs, i, open_time) ==
    IF i > Len(fs) THEN open_time
    ELSE IF fs[i].time[1] # "num" THEN ReplayFrom(fs, i + 1, open_time)
    ELSE LET ts == At(fs[i].time[2])
             o1 == IF OpensFromFlat(fs[i]) THEN ts ELSE open_time
             o2 == IF ClosesToFlat(fs[i]) THEN NoTime ELSE o1
             o3 == IF FlipsSign(fs[i]) THEN ts ELSE o2
         IN ReplayFrom(fs, i + 1, o3)

\* cur_by_coin = {p.coin: p.size for p in positions}: the last entry of a coin wins
CurByCoin(positions, coin) ==
    LET is == {i \in 1..Len(positions) : positions[i].coin = coin} IN
      positions[CHOOSE i \in is : \A j \in is : j <= i].size

\* the open time of the replay alone, with no fallback to the earliest fill
OpenTimeOf_NoFallback(fs) == ReplayFrom(SortByTime(fs), 1, NoTime)

\* the open time the loop body ends with for one coin's fills
OpenTimeOf(fs) ==
    LET fs_sorted == SortByTime(fs)
        replayed == ReplayFrom(fs_sorted, 1, NoTime)
    IN IF replayed = NoTime /\ fs_sorted # <<>> /\ fs_sorted[1].time[1] = "num"
       THEN At(fs_sorted[1].time[2])
       ELSE replayed

\* (now - open_time).total_seconds() / 86400.0
AgeDays(open_time) == Rat(FillNowMs - open_time[2], MsPerDay)

Raised == <<"raised", EmptyDict>>
infer_position_ages_from_fills(fills, positions) ==
    LET needed == {positions[i].coin : i \in 1..Len(positions)}
        ByCoin(c) == SelectSeq(fills, LAMBDA f : f.coin = c)
        coins == {c \in needed : ByCoin(c) # <<>>}
        aged == {c \in coins : /\ ~(Abs(CurByCoin(positions, c)) < PosEps)
                               /\ OpenTimeOf(ByCoin(c)) # NoTime}
    IN IF \E c \in coins : \E i \in 1..Len(ByCoin(c)) : TimeKeyRaises(ByCoin(c)[i])
       THEN Raised
       ELSE <<"ages", [c \in aged |-> AgeDays(OpenTimeOf(ByCoin(c)))]>>

FillsInit ==
    /\ fa_fills \in SeqsUpTo(FillInputs, MaxFills)
    /\ fa_positions \in PositionInputs
    /\ fa_pc = "input"
    /\ fa_out = <<"ages", EmptyDict>>

\* ages = infer_position_ages_from_fills(fs, positions_by_user[addr])
FA_infer ==
    /\ fa_pc = "input"
    /\ fa_out' = infer_position_ages_from_fills(fa_fills, fa_positions)
    /\ fa_pc' = "done"
    /\ UNCHANGED <<fa_fills, fa_positions>>
    /\ UNCHANGED faFrame

---------------------------------------------------------------------------
(* Ranking: compute_rank_scores and apply_ranks.  Scores are exact          *)
(* fractions.                                                               *)

\* wallets in a cohort, at most
MaxWallets == 3

RankKeys == {"risk", "pnl", "stability", "conviction"}
Zero == Rat(0, 1)
RatAdd(a, b) == Rat(a[2] * b[3] + b[2] * a[3], a[3] * b[3])
RatSub(a, b) == Rat(a[2] * b[3] - b[2] * a[3], a[3] * b[3])
RatMul(a, b) == Rat(a[2] * b[2], a[3] * b[3])
RatMax(a, b) == IF RatGreater(b, a) THEN b ELSE a
\* float(x or 0.0): None and 0 give 0.0
OrZero(x) == IF x = Null THEN Zero ELSE x

\* a window of wallet["portfolio"]: None, or the dict of window_return_metrics
NoWindow == [present |-> FALSE, pnl_pct |-> Null, vol_pct_daily |-> Null,
             max_drawdown_pct |-> Null]
Window(pnl, vol, mdd) == [present |-> TRUE, pnl_pct |-> pnl, vol_pct_daily |-> vol,
                          max_drawdown_pct |-> mdd]

\* the fields of a wallet that compute_rank_scores reads; an age_days of Null
\* is a position whose age is unknown
WalletProfiles ==
    {[risk_score |-> Rat(40, 1), exposure_pct |-> Rat(100, 1),
      month |-> Window(Rat(10, 1), Rat(1, 1), Rat(5, 1)), week |-> NoWindow,
      allTime |-> NoWindow, ages |-> <<Rat(2, 1)>>],
     [risk_score |-> Zero, exposure_pct |-> Null,
      month |-> Window(Null, Null, Null), week |-> Window(Rat(10, 1), Null, Null),
      allTime |-> Window(Rat(99, 1), Null, Null), ages |-> <<>>],
     [risk_score |-> Rat(80, 1), exposure_pct |-> Rat(200, 1),
      month |-> Window(Rat(-5, 1), Rat(10, 1), Rat(30, 1)), week |-> NoWindow,
      allTime |-> NoWindow, ages |-> <<Rat(1, 1), Null, Rat(4, 1)>>],
     [risk_score |-> Rat(40, 1), exposure_pct |-> Rat(50, 1),
      month |-> NoWindow, week |-> NoWindow,
      allTime |-> Window(Rat(3, 1), Rat(9, 1), Rat(9, 1)), ages |-> <<Null>>]}
WalletAddresses == <<"w1", "w2", "w3", "w4", "w5">>

RECURSIVE RatSum(_, _)
RatSum(xs, i) == IF i > Len(xs) THEN Zero ELSE RatAdd(xs[i], RatSum(xs, i + 1))

\* compute_rank_scores(wallet)
compute_rank_scores(w) ==
    LET r == OrZero(w.risk_score)
        exposure == OrZero(w.exposure_pct)
        pnl_val == IF w.month.pnl_pct # Null THEN w.month.pnl_pct
                   ELSE IF w.week.pnl_pct # Null THEN w.week.pnl_pct
                   ELSE w.allTime.pnl_pct
        vol == OrZero(w.month.vol_pct_daily)
        mdd == OrZero(w.month.max_drawdown_pct)
        ages == SelectSeq(w.ages, LAMBDA ad : ad # Null)
        avg_age == IF ages # <<>> THEN RatMul(RatSum(ages, 1), Rat(1, Len(ages))) ELSE Zero
    IN [risk |-> r,
        pnl |-> OrZero(pnl_val),
        stability |-> RatMax(Zero, RatSub(RatSub(Rat(100, 1), RatMul(vol, Rat(10, 1))),
                                          RatMul(mdd, Rat(2, 1)))),
        conviction |-> RatSub(RatAdd(RatMul(avg_age, Rat(2, 1)), RatMul(exposure, Rat(1, 2))),
                              RatMul(r, Rat(1, 2)))]

\* sorted(wallets, key=score, reverse=True): descending and stable, so equal
\* scores keep their order; the result is a sequence of indexes into wallets
InsertDesc_TiesReversed(sorted, i, score) ==
    LET n == Cardinality({k \in 1..Len(sorted) : RatGreater(score[sorted[k]], score[i])}) IN
      SubSeq(sorted, 1, n) \o <<i>> \o SubSeq(sorted, n + 1, Len(sorted))
InsertDesc(sorted, i, score) ==
    LET n == Cardinality({k \in 1..Len(sorted) : ~RatGreater(score[i], score[sorted[k]])}) IN
      SubSeq(sorted, 1, n) \o <<i>> \o SubSeq(sorted, n + 1, Len(sorted))
RECURSIVE SortDescFrom(_, _, _)
SortDescFrom(score, i, out) ==
    IF i > Len(score) THEN out ELSE SortDescFrom(score, i + 1, InsertDesc(out, i, score))
SortDesc(score) == SortDescFrom(score, 1, <<>>)

\* ranks[key][w["address"]] = i for i, w in enumerate(ordered, 1)
RanksFor(wallets, score) ==
    LET ordered == SortDesc(score) IN
      [a \in {wallets[i].address : i \in 1..Len(wallets)} |->
         LET ps == {p \in 1..Len(ordered) : wallets[ordered[p]].address = a} IN
           CHOOSE p \in ps : \A q \in ps : q <= p]

RanksInit ==
    /\ \E n \in 0..MaxWallets :
          rk_wallets \in {[i \in 1..n |-> [address |-> WalletAddresses[i], profile |-> pr[i]]]
                            : pr \in [1..n -> WalletProfiles]}
    /\ rk_pc = "input"
    /\ rk_scores = <<>>
    /\ rk_ranks = [k \in RankKeys |-> EmptyDict]
    /\ rk_files = [k \in RankKeys |-> <<>>]

\* apply_ranks(wallets)
RK_apply_ranks ==
    /\ rk_pc = "input"
    /\ LET scores == [i \in 1..Len(rk_wallets) |-> compute_rank_scores(rk_wallets[i].profile)] IN
         /\ rk_scores' = scores
         /\ rk_ranks' = [k \in RankKeys |->
                           RanksFor(rk_wallets, [i \in 1..Len(rk_wallets) |-> scores[i][k]])]
    /\ rk_pc' = "ranked"
    /\ UNCHANGED <<rk_wallets, rk_files>>
    /\ UNCHANGED rkFrame

\* sort_wallets(wallets, by) for the keys write_mode_files passes: a second
\* sorted(..., reverse=True) over the same list, keyed by rank_scores[by]
sort_wallets_AsSupplied(wallets, scores, by) == wallets
sort_wallets(wallets, scores, by) ==
    LET ordered == SortDesc([i \in 1..Len(wallets) |-> scores[i][by]]) IN
      [p \in 1..Len(wallets) |-> wallets[ordered[p]]]

\* write_mode_files(mode_name, wallets, base_meta): the four sorted files
RK_write_mode_files ==
    /\ rk_pc = "ranked"
    /\ rk_files' = [rank_by \in RankKeys |-> sort_wallets(rk_wallets, rk_scores, rank_by)]
    /\ rk_pc' = "written"
    /\ UNCHANGED <<rk_wallets, rk_scores, rk_ranks>>
    /\ UNCHANGED rkFrame

---------------------------------------------------------------------------
(* Risk score: risk_score(account_value, positions).                        *)

\* positions of one account, at most
MaxPositions == 2

RatMin(a, b) == IF RatGreater(a, b) THEN b ELSE a
One == Rat(1, 1)

\* margin_used, leverage and liq_distance_pct (None when unknown) of a position
RiskPositions ==
    [margin_used : {-30, 5, 30}, leverage : {0, 25, 60},
     liq_distance_pct : {Null, Rat(0, 1), Rat(20, 1), Rat(80, 1)}]
AccountValues == {-10, 0, 10, 20}

RECURSIVE SumMargin(_, _)
SumMargin(positions, i) ==
    IF i > Len(positions) THEN 0 ELSE positions[i].margin_used + SumMargin(positions, i + 1)
\* total_margin / account_value
MarginRatio(account_value, positions) == Rat(SumMargin(positions, 1), account_value)
\* max((p.leverage for p in positions), default=0.0)
MaxLev(positions) ==
    IF positions = <<>> THEN 0
    ELSE CHOOSE l \in {positions[i].leverage : i \in 1..Len(positions)} :
            \A i \in 1..Len(positions) : positions[i].leverage <= l
\* min(liq_dists), None when no distance is known
Closest(positions) ==
    LET ds == {positions[i].liq_distance_pct : i \in 1..Len(positions)} \ {Null} IN
      IF ds = {} THEN Null ELSE CHOOSE d \in ds : \A e \in ds : ~RatGreater(d, e)
\* liq_score: 0.25, or 1.0 - min(1.0, closest / 50.0)
LiqScore_Inverted(closest) ==
    IF closest = Null THEN Rat(1, 4) ELSE RatMin(One, RatMul(closest, Rat(1, 50)))
LiqScore(closest) ==
    IF closest = Null THEN Rat(1, 4) ELSE RatSub(One, RatMin(One, RatMul(closest, Rat(1, 50))))

risk_score(account_value, positions) ==
    IF account_value <= 0 \/ positions = <<>> THEN Zero
    ELSE
      LET margin_ratio == RatMin(One, MarginRatio(account_value, positions))
          lev_score == RatMin(One, Rat(MaxLev(positions), 50))
          liq_score == LiqScore(Closest(positions))
          score == RatMul(Rat(100, 1),
                          RatAdd(RatMul(Rat(2, 5), margin_ratio),
                                 RatAdd(RatMul(Rat(3, 10), lev_score),
                                        RatMul(Rat(3, 10), liq_score))))
      IN RatMax(Zero, RatMin(Rat(100, 1), score))

RiskInit ==
    /\ rs_av \in AccountValues
    /\ rs_positions \in SeqsUpTo(RiskPositions, MaxPositions)
    /\ rs_pc = "input"
    /\ rs_out = Zero

\* r = risk_score(av, pos_objs)
RS_score ==
    /\ rs_pc = "input"
    /\ rs_out' = risk_score(rs_av, rs_positions)
    /\ rs_pc' = "done"
    /\ UNCHANGED <<rs_av, rs_positions>>
    /\ UNCHANGED rsFrame

---------------------------------------------------------------------------
(* Candidate selection in main: extract_account_value, extract_positions    *)
(* and the loop over states_by_user.  Position sizes are integers in units  *)
(* of 1e-12.                                                                *)

\* fetched states, at most
MaxStates == 2

\* abs(szi) < 1e-12, the unit of szi here
FlatEps == 1
\* --min-value, --limit
MinValues == {-1, 0, 50}
Limits == {0, 1}
\* marginSummary.accountValue of a state: absent, "0", "50", "100"
RawAccountValues == {Absent, Num(0), Num(50), Num(100)}
\* the szi of the entries of assetPositions
RawPositionLists == {<<>>, <<Num(0)>>, <<Num(2)>>, <<Num(0), Num(2)>>, <<JsonStr>>}
StateAddresses == <<"s1", "s2", "s3", "s4">>

\* extract_account_value(state)
extract_account_value(state) == to_float(state.accountValue, 0)
\* extract_positions(state, ...): the entries whose size is not flat
NonFlat(szi) == ~(Abs(to_float(szi, 0)) < FlatEps)
extract_positions(state) == SelectSeq(state.szis, NonFlat)

SelectInit ==
    /\ min_value \in MinValues
    /\ limit \in Limits
    /\ \E n \in 0..MaxStates :
          states_by_user \in
             {[i \in 1..n |-> [address |-> StateAddresses[i], accountValue |-> av[i],
                               szis |-> ps[i]]]
                : av \in [1..n -> RawAccountValues], ps \in [1..n -> RawPositionLists]}
    /\ cs_i = 1
    /\ cs_pc = "loop"
    /\ candidates = <<>>

CurState == states_by_user[cs_i]
CsInLoop == cs_pc = "loop" /\ cs_i <= Len(states_by_user)

\* if av < args.min_value: continue
CS_skip_low_value ==
    /\ CsInLoop
    /\ extract_account_value(CurState) < min_value
    /\ cs_i' = cs_i + 1
    /\ UNCHANGED <<min_value, limit, states_by_user, cs_pc, candidates>>
    /\ UNCHANGED csFrame

\* if not pos: continue
CS_skip_no_positions ==
    /\ CsInLoop
    /\ ~(extract_account_value(CurState) < min_value)
    /\ extract_positions(CurState) = <<>>
    /\ cs_i' = cs_i + 1
    /\ UNCHANGED <<min_value, limit, states_by_user, cs_pc, candidates>>
    /\ UNCHANGED csFrame

\* candidates.append(addr)
CS_add ==
    /\ CsInLoop
    /\ ~(extract_account_value(CurState) < min_value)
    /\ extract_positions(CurState) # <<>>
    /\ candidates' = Append(candidates, CurState.address)
    /\ cs_i' = cs_i + 1
    /\ UNCHANGED <<min_value, limit, states_by_user, cs_pc>>
    /\ UNCHANGED csFrame

\* candidates = dedupe_keep_order(candidates); candidates = candidates[: args.limit]
CS_finish ==
    /\ cs_pc = "loop" /\ cs_i > Len(states_by_user)
    /\ candidates' = IF limit > 0
                     THEN SubSeq(dedupe_keep_order(candidates), 1,
                                 Min(limit, Len(dedupe_keep_order(candidates))))
                     ELSE dedupe_keep_order(candidates)
    /\ cs_pc' = "selected"
    /\ UNCHANGED <<min_value, limit, states_by_user, cs_i>>
    /\ UNCHANGED csFrame

---------------------------------------------------------------------------
(* Address collection in main: is_eth_address, dedupe_keep_order and       *)
(* extract_addresses_from_leaderboard.  A string is a sequence of          *)
(* characters; an address is "0x" followed by HexLen hexadecimal digits.   *)

\* hexadecimal digits of an address (40 in ETH_ADDR_RE)
HexLen == 2
\* entries of --addresses, lines of --file, entries of the leaderboard, at most
MaxCli == 2
MaxLines == 1
MaxEntries == 1

Whitespace == {" "}
HexChars == {"0", "a", "b", "A", "B"}
\* str.lower() of one character
LowerChar(c) ==
    CASE c = "A" -> "a"
      [] c = "B" -> "b"
      [] c = "G" -> "g"
      [] c = "X" -> "x"
      [] OTHER -> c
\* s.lower()
lower(s) == [i \in 1..Len(s) |-> LowerChar(s[i])]
\* s.strip()
RECURSIVE lstrip(_)
lstrip(s) == IF s # <<>> /\ Head(s) \in Whitespace THEN lstrip(Tail(s)) ELSE s
RECURSIVE rstrip(_)
rstrip(s) ==
    IF s # <<>> /\ s[Len(s)] \in Whitespace THEN rstrip(SubSeq(s, 1, Len(s) - 1)) ELSE s
strip(s) == rstrip(lstrip(s))

\* ETH_ADDR_RE.match: ^0x[a-fA-F0-9]{40}$
ETH_ADDR_RE_match(s) ==
    /\ Len(s) = 2 + HexLen
    /\ s[1] = "0" /\ s[2] = "x"
    /\ \A i \in 3..Len(s) : s[i] \in HexChars
\* is_eth_address(s): bool(ETH_ADDR_RE.match((s or "").strip()))
is_eth_address(s) == ETH_ADDR_RE_match(strip(s))

\* raw strings a user or the leaderboard may supply: a canonical address, the
\* same address with upper-case digits and padding, another address written
\* with "0X", and a string with a character that is no hexadecimal digit
RawAddr(pad, x, first, rest) ==
    pad \o <<"0", x>> \o [i \in 1..HexLen |-> IF i = 1 THEN first ELSE rest] \o pad
RawStrings ==
    {RawAddr(<<>>, "x", "a", "a"), RawAddr(<<" ">>, "x", "A", "A"),
     RawAddr(<<>>, "X", "b", "b"), RawAddr(<<>>, "x", "G", "a")}
\* lines of the --file: a raw string, an empty line, a comment
FileLines == RawStrings \cup {<<>>, <<"#", "a">>}
\* no --file given
NoFile == <<"nofile">>
\* a leaderboard entry that holds no address string
NoAddrEntry == <<"noaddr">>
LbEntries == RawStrings \cup {NoAddrEntry}
\* get_leaderboard() returned None
LbNone == <<"none">>
TopNs == {1, 2}

\* [a.lower().strip() for a in args.addresses], then the is_eth_address filter
CliAddrs(raw) ==
    SelectSeq([i \in 1..Len(raw) |-> strip(lower(raw[i]))], is_eth_address)

\* the lines of --file: strip, skip empty lines and comments, lower, validate
RECURSIVE FileAddrsFrom(_, _, _)
FileAddrsFrom(lines, i, out) ==
    IF i > Len(lines) THEN out
    ELSE LET s == strip(lines[i]) IN
         IF s = <<>> \/ Head(s) = "#" THEN FileAddrsFrom(lines, i + 1, out)
         ELSE IF is_eth_address(lower(s))
              THEN FileAddrsFrom(lines, i + 1, Append(out, lower(s)))
              ELSE FileAddrsFrom(lines, i + 1, out)

\* extract_addresses_from_leaderboard(lb, top_n), lb a list of entries
RECURSIVE LbAddrsFrom(_, _, _)
LbAddrsFrom(entries, i, out) ==
    IF i > Len(entries) THEN out
    ELSE IF entries[i] = NoAddrEntry \/ entries[i] = <<>>
         THEN LbAddrsFrom(entries, i + 1, out)
    ELSE LET addr == lower(strip(entries[i])) IN
         IF is_eth_address(addr) THEN LbAddrsFrom(entries, i + 1, Append(out, addr))
         ELSE LbAddrsFrom(entries, i + 1, out)
extract_addresses_from_leaderboard(lb, top_n) ==
    dedupe_keep_order(LbAddrsFrom(SubSeq(lb, 1, Min(top_n, Len(lb))), 1, <<>>))

AddrInit ==
    /\ ad_cli \in SeqsUpTo(RawStrings, MaxCli)
    /\ ad_file \in {NoFile} \cup {<<"lines", l>> : l \in SeqsUpTo(FileLines, MaxLines)}
    /\ ad_auto \in BOOLEAN
    /\ ad_lb \in IF ad_auto
                 THEN {LbNone} \cup {<<"list", e>> : e \in SeqsUpTo(LbEntries, MaxEntries)}
                 ELSE {LbNone}
    /\ ad_top_n \in IF ad_auto THEN TopNs ELSE {1}
    /\ ad_pc = "cli"
    /\ addrs = <<>>
    /\ ad_rc = 0

adArgs == <<ad_cli, ad_file, ad_auto, ad_lb, ad_top_n>>

\* addrs = [a.lower().strip() ...]; addrs = [a for a in addrs if is_eth_address(a)]
AD_cli ==
    /\ ad_pc = "cli"
    /\ addrs' = CliAddrs(ad_cli)
    /\ ad_pc' = "file"
    /\ UNCHANGED <<adArgs, ad_rc>>
    /\ UNCHANGED adFrame

\* if args.file: read every line; an exception while reading is printed and
\* the addresses appended so far are kept
AD_file ==
    /\ ad_pc = "file"
    /\ \/ ad_file = NoFile /\ addrs' = addrs
       \/ /\ ad_file # NoFile
          /\ \E k \in 0..Len(ad_file[2]) :
                addrs' = addrs \o FileAddrsFrom(SubSeq(ad_file[2], 1, k), 1, <<>>)
    /\ ad_pc' = "lb"
    /\ UNCHANGED <<adArgs, ad_rc>>
    /\ UNCHANGED adFrame

\* not args.auto_find
AD_no_auto_find ==
    /\ ad_pc = "lb" /\ ~ad_auto
    /\ ad_pc' = "dedupe"
    /\ UNCHANGED <<adArgs, addrs, ad_rc>>
    /\ UNCHANGED adFrame

\* lb is None, or no valid address in it: return 2
AD_leaderboard_fails ==
    /\ ad_pc = "lb" /\ ad_auto
    /\ \/ ad_lb = LbNone
       \/ ad_lb # LbNone /\ extract_addresses_from_leaderboard(ad_lb[2], ad_top_n) = <<>>
    /\ ad_pc' = "returned" /\ ad_rc' = 2
    /\ UNCHANGED <<adArgs, addrs>>
    /\ UNCHANGED adFrame

\* addrs.extend(lb_addrs)
AD_leaderboard_extend ==
    /\ ad_pc = "lb" /\ ad_auto /\ ad_lb # LbNone
    /\ extract_addresses_from_leaderboard(ad_lb[2], ad_top_n) # <<>>
    /\ addrs' = addrs \o extract_addresses_from_leaderboard(ad_lb[2], ad_top_n)
    /\ ad_pc' = "dedupe"
    /\ UNCHANGED <<adArgs, ad_rc>>
    /\ UNCHANGED adFrame

\* addrs = dedupe_keep_order(addrs), and the list goes to the fetcher
AD_dedupe ==
    /\ ad_pc = "dedupe" /\ dedupe_keep_order(addrs) # <<>>
    /\ addrs' = dedupe_keep_order(addrs)
    /\ ad_pc' = "fetch"
    /\ UNCHANGED <<adArgs, ad_rc>>
    /\ UNCHANGED adFrame

\* if not addrs: return 2
AD_no_addresses ==
    /\ ad_pc = "dedupe" /\ dedupe_keep_order(addrs) = <<>>
    /\ addrs' = <<>>
    /\ ad_pc' = "returned" /\ ad_rc' = 2
    /\ UNCHANGED adArgs
    /\ UNCHANGED adFrame

---------------------------------------------------------------------------
(* Style label: style_label(risk, vol_pct_daily, mdd_pct).                  *)

\* risk scores, daily volatilities and drawdowns on both sides of each
\* threshold; None for a metric that could not be computed
StyleRisks == {Rat(0, 1), Rat(399, 10), Rat(40, 1), Rat(699, 10), Rat(70, 1), Rat(100, 1)}
StyleVols == {Null, Rat(0, 1), Rat(19, 10), Rat(2, 1), Rat(49, 10), Rat(5, 1)}
StyleDrawdowns == {Null, Rat(0, 1), Rat(119, 10), Rat(12, 1), Rat(249, 10), Rat(25, 1)}

\* x > n, x a float and n an integer
AtLeast_Strict(x, n) == x[2] > n * x[3]
\* x >= n, x a float and n an integer
AtLeast(x, n) == x[2] >= n * x[3]

style_label(risk, vol_pct_daily, mdd_pct) ==
    LET v == IF vol_pct_daily # Null THEN vol_pct_daily ELSE Rat(0, 1)
        d == IF mdd_pct # Null THEN mdd_pct ELSE Rat(0, 1)
    IN IF AtLeast(risk, 70) \/ AtLeast(v, 5) \/ AtLeast(d, 25) THEN "aggressive"
       ELSE IF AtLeast(risk, 40) \/ AtLeast(v, 2) \/ AtLeast(d, 12) THEN "balanced"
       ELSE "stable"

StyleInit ==
    /\ sl_risk \in StyleRisks
    /\ sl_vol \in StyleVols
    /\ sl_mdd \in StyleDrawdowns
    /\ sl_pc = "input"
    /\ sl_out = "none"

\* w["style"] = style_label(r, v, d)
SL_label ==
    /\ sl_pc = "input"
    /\ sl_out' = style_label(sl_risk, sl_vol, sl_mdd)
    /\ sl_pc' = "done"
    /\ UNCHANGED <<sl_risk, sl_vol, sl_mdd>>
    /\ UNCHANGED slFrame

---------------------------------------------------------------------------
(* The fill stage of main: one userFills request per candidate, then the    *)
(* split of the candidates into the active and the inactive cohort.         *)

\* candidates, at most
MaxCandidates == 3
\* active_cutoff = now - active_days * 86400, in the milliseconds of the fills
ActiveCutoffMs == 2

\* client.user_fills(addr) returned None
NoResult == <<"noresult">>
\* what user_fills can return: None, an empty list, or a log of one fill of the
\* held coin (timestamp old, recent, absent or null)
FillAnswers ==
    {NoResult, <<"fills", <<>>>>}
    \cup {<<"fills", <<Fill("BTC", t, <<Num(0), "B", Num(4)>>)>>>> :
            t \in {Num(1), Num(3), Absent, JsonNull}}
\* positions_by_user[addr]: every candidate holds a position
CandidatePositions == <<[coin |-> "BTC", size |-> 4]>>

\* last_trade_time_from_fills: the largest timestamp that int() accepts
last_trade_time_from_fills(fills) ==
    LET ts == {fills[i].time[2] : i \in {j \in 1..Len(fills) : fills[j].time[1] = "num"}} IN
      IF ts = {} THEN NoTime ELSE At(CHOOSE t \in ts : \A u \in ts : u <= t)

\* is_active(addr): a last trade at or after the cutoff
is_active(lt) == lt # NoTime /\ lt[2] >= ActiveCutoffMs

FillStageInit ==
    /\ \E n \in 1..MaxCandidates : fs_candidates = SubSeq(AllUsers, 1, n)
    /\ fs_i = 1
    /\ fs_pc = "fills"
    /\ fs_answers = <<>>
    /\ failed_fills = <<>>
    /\ last_trade = EmptyDict
    /\ fs_ages = EmptyDict
    /\ active_addrs = <<>>
    /\ inactive_addrs = <<>>

FsInLoop == fs_pc = "fills" /\ fs_i <= Len(fs_candidates)
FsAddr == fs_candidates[fs_i]

\* fs is None: failed_fills.append(addr); last_trade[addr] = None
FS_fetch_none ==
    /\ FsInLoop
    /\ fs_answers' = Append(fs_answers, NoResult)
    /\ failed_fills' = Append(failed_fills, FsAddr)
    /\ last_trade' = DictSet(last_trade, FsAddr, NoTime)
    /\ fs_i' = fs_i + 1
    /\ UNCHANGED <<fs_candidates, fs_pc, fs_ages, active_addrs, inactive_addrs>>
    /\ UNCHANGED fsFrame

\* fs is a list: last_trade[addr] and the ages of the positions are set
FS_fetch_fills ==
    /\ FsInLoop
    /\ \E ans \in FillAnswers \ {NoResult} :
          /\ infer_position_ages_from_fills(ans[2], CandidatePositions) # Raised
          /\ fs_answers' = Append(fs_answers, ans)
          /\ last_trade' = DictSet(last_trade, FsAddr, last_trade_time_from_fills(ans[2]))
          /\ fs_ages' = DictSet(fs_ages, FsAddr,
                                infer_position_ages_from_fills(ans[2], CandidatePositions)[2])
    /\ fs_i' = fs_i + 1
    /\ UNCHANGED <<fs_candidates, fs_pc, failed_fills, active_addrs, inactive_addrs>>
    /\ UNCHANGED fsFrame

\* fs is a list on which infer_position_ages_from_fills raises: last_trade[addr]
\* is set, then the exception leaves main
FS_fetch_raises ==
    /\ FsInLoop
    /\ \E ans \in FillAnswers \ {NoResult} :
          /\ infer_position_ages_from_fills(ans[2], CandidatePositions) = Raised
          /\ fs_answers' = Append(fs_answers, ans)
          /\ last_trade' = DictSet(last_trade, FsAddr, last_trade_time_from_fills(ans[2]))
    /\ fs_pc' = "raised"
    /\ UNCHANGED <<fs_candidates, fs_i, failed_fills, fs_ages, active_addrs, inactive_addrs>>
    /\ UNCHANGED fsFrame

\* active_addrs = [a for a in candidates if is_active(a)], and the inactive ones
FS_classify ==
    /\ fs_pc = "fills" /\ fs_i > Len(fs_candidates)
    /\ active_addrs' = SelectSeq(fs_candidates, LAMBDA a : is_active(last_trade[a]))
    /\ inactive_addrs' = SelectSeq(fs_candidates, LAMBDA a : ~is_active(last_trade[a]))
    /\ fs_pc' = "classified"
    /\ UNCHANGED <<fs_candidates, fs_i, fs_answers, failed_fills, last_trade, fs_ages>>
    /\ UNCHANGED fsFrame

---------------------------------------------------------------------------
(* Specifications.  Each one runs one component; the others stay in one    *)
(* fixed state (main's defaults, nothing called).                          *)

LimiterParked ==
    /\ min_interval_s = MainMinInterval(180)
    /\ max_interval_s = MainMaxIntervalMs
    /\ last_ts = 0
    /\ cooldown = 0
    /\ now = EpochStart

TransportParked == TransportInit /\ retries = 0

BatchParked ==
    /\ users = <<>>
    /\ batch_size = 1
    /\ min_batch_size = 1
    /\ fallback_per_user = TRUE
    /\ bf_pc = "idle"
    /\ bf_stack = <<>>
    /\ bf_states = EmptyDict
    /\ bf_failed = <<>>
    /\ bf_nBatch = 0
    /\ bf_perUser = EmptyDict
    /\ bf_log = <<>>

MetricsParked ==
    /\ wm_win = [account_values |-> <<>>, pnls |-> <<>>]
    /\ wm_pc = "input"
    /\ wm_out = AllNull

FillsParked ==
    /\ fa_fills = <<>>
    /\ fa_positions = <<>>
    /\ fa_pc = "input"
    /\ fa_out = <<"ages", EmptyDict>>

RanksParked ==
    /\ rk_wallets = <<>>
    /\ rk_pc = "input"
    /\ rk_scores = <<>>
    /\ rk_ranks = [k \in RankKeys |-> EmptyDict]
    /\ rk_files = [k \in RankKeys |-> <<>>]

RiskParked ==
    /\ rs_av = 0
    /\ rs_positions = <<>>
    /\ rs_pc = "input"
    /\ rs_out = Zero

SelectParked ==
    /\ min_value = 0
    /\ limit = 0
    /\ states_by_user = <<>>
    /\ cs_i = 1
    /\ cs_pc = "loop"
    /\ candidates = <<>>

AddrParked ==
    /\ ad_cli = <<>>
    /\ ad_file = NoFile
    /\ ad_auto = FALSE
    /\ ad_lb = LbNone
    /\ ad_top_n = 1
    /\ ad_pc = "cli"
    /\ addrs = <<>>
    /\ ad_rc = 0

StyleParked ==
    /\ sl_risk = Rat(0, 1)
    /\ sl_vol = Null
    /\ sl_mdd = Null
    /\ sl_pc = "input"
    /\ sl_out = "none"

FillStageParked ==
    /\ fs_candidates = <<>>
    /\ fs_i = 1
    /\ fs_pc = "fills"
    /\ fs_answers = <<>>
    /\ failed_fills = <<>>
    /\ last_trade = EmptyDict
    /\ fs_ages = EmptyDict
    /\ active_addrs = <<>>
    /\ inactive_addrs = <<>>


InitLimiter ==
    /\ LimiterInit /\ CallerInit /\ ConcInit /\ TransportParked /\ BatchParked
    /\ MetricsParked /\ FillsParked /\ RanksParked /\ RiskParked
    /\ SelectParked /\ AddrParked /\ StyleParked /\ FillStageParked

NextLimiter ==
    \/ L_note_error
    \/ L_note_ok
    \/ L_wait_call
    \/ L_wait_sleep
    \/ L_wait_stamp
    \/ L_tick

SpecLimiter == InitLimiter /\ [][NextLimiter]_vars

InitConc ==
    /\ LimiterInit /\ CallerInit /\ ConcInit /\ TransportParked /\ BatchParked
    /\ MetricsParked /\ FillsParked /\ RanksParked /\ RiskParked
    /\ SelectParked /\ AddrParked /\ StyleParked /\ FillStageParked

NextConc ==
    \/ \E w \in Workers : C_wait_read(w)
    \/ \E w \in Workers : C_wait_sleep(w)
    \/ \E w \in Workers : C_wait_stamp(w)
    \/ \E w \in Workers : C_note_error_read(w)
    \/ \E w \in Workers : C_note_error_write(w)
    \/ \E w \in Workers : C_note_ok_read(w)
    \/ \E w \in Workers : C_note_ok_write(w)
    \/ C_tick

SpecConc == InitConc /\ [][NextConc]_vars

InitTransport ==
    /\ LimiterInit /\ CallerInit /\ ConcInit /\ TransportInit /\ BatchParked
    /\ MetricsParked /\ FillsParked /\ RanksParked /\ RiskParked
    /\ SelectParked /\ AddrParked /\ StyleParked /\ FillStageParked

\* the steps of a call in progress
TransportStep ==
    \/ T_loop_exit
    \/ T_wait
    \/ T_send
    \/ T_ok
    \/ T_bad_json
    \/ T_retry_status
    \/ T_fatal_status
    \/ T_exception
    \/ T_sleep_backoff

NextTransport ==
    \/ T_call
    \/ TransportStep

SpecTransport == InitTransport /\ [][NextTransport]_vars

InitBatch ==
    /\ LimiterParked /\ CallerInit /\ ConcInit /\ TransportParked /\ BatchInit
    /\ MetricsParked /\ FillsParked /\ RanksParked /\ RiskParked
    /\ SelectParked /\ AddrParked /\ StyleParked /\ FillStageParked

NextBatch ==
    \/ BF_call
    \/ BF_batch_matched
    \/ BF_batch_split
    \/ BF_batch_split_raises
    \/ BF_batch_to_per_user
    \/ BF_batch_no_fallback
    \/ BF_per_user
    \/ BF_return_left
    \/ BF_return_right
    \/ BF_return

SpecBatch == InitBatch /\ [][NextBatch]_vars

InitMetrics ==
    /\ LimiterParked /\ CallerInit /\ ConcInit /\ TransportParked /\ BatchParked
    /\ MetricsInit /\ FillsParked /\ RanksParked /\ RiskParked
    /\ SelectParked /\ AddrParked /\ StyleParked /\ FillStageParked

NextMetrics == WM_compute

SpecMetrics == InitMetrics /\ [][NextMetrics]_vars

InitFills ==
    /\ LimiterParked /\ CallerInit /\ ConcInit /\ TransportParked /\ BatchParked
    /\ MetricsParked /\ FillsInit /\ RanksParked /\ RiskParked
    /\ SelectParked /\ AddrParked /\ StyleParked /\ FillStageParked

NextFills == FA_infer

SpecFills == InitFills /\ [][NextFills]_vars

InitRanks ==
    /\ LimiterParked /\ CallerInit /\ ConcInit /\ TransportParked /\ BatchParked
    /\ MetricsParked /\ FillsParked /\ RanksInit /\ RiskParked
    /\ SelectParked /\ AddrParked /\ StyleParked /\ FillStageParked

NextRanks == RK_apply_ranks \/ RK_write_mode_files

SpecRanks == InitRanks /\ [][NextRanks]_vars

InitRisk ==
    /\ LimiterParked /\ CallerInit /\ ConcInit /\ TransportParked /\ BatchParked
    /\ MetricsParked /\ FillsParked /\ RanksParked /\ RiskInit
    /\ SelectParked /\ AddrParked /\ StyleParked /\ FillStageParked

NextRisk == RS_score

SpecRisk == InitRisk /\ [][NextRisk]_vars

InitSelect ==
    /\ LimiterParked /\ CallerInit /\ ConcInit /\ TransportParked /\ BatchParked
    /\ MetricsParked /\ FillsParked /\ RanksParked /\ RiskParked
    /\ SelectInit /\ AddrParked /\ StyleParked /\ FillStageParked

NextSelect ==
    \/ CS_skip_low_value
    \/ CS_skip_no_positions
    \/ CS_add
    \/ CS_finish

SpecSelect == InitSelect /\ [][NextSelect]_vars

InitAddr ==
    /\ LimiterParked /\ CallerInit /\ ConcInit /\ TransportParked /\ BatchParked
    /\ MetricsParked /\ FillsParked /\ RanksParked /\ RiskParked
    /\ SelectParked /\ AddrInit /\ StyleParked /\ FillStageParked

NextAddr ==
    \/ AD_cli
    \/ AD_file
    \/ AD_no_auto_find
    \/ AD_leaderboard_fails
    \/ AD_leaderboard_extend
    \/ AD_dedupe
    \/ AD_no_addresses

SpecAddr == InitAddr /\ [][NextAddr]_vars

InitStyle ==
    /\ LimiterParked /\ CallerInit /\ ConcInit /\ TransportParked /\ BatchParked
    /\ MetricsParked /\ FillsParked /\ RanksParked /\ RiskParked
    /\ SelectParked /\ AddrParked /\ StyleInit /\ FillStageParked

NextStyle == SL_label

SpecStyle == InitStyle /\ [][NextStyle]_vars

InitFillStage ==
    /\ LimiterParked /\ CallerInit /\ ConcInit /\ TransportParked /\ BatchParked
    /\ MetricsParked /\ FillsParked /\ RanksParked /\ RiskParked
    /\ SelectParked /\ AddrParked /\ StyleParked /\ FillStageInit

NextFillStage ==
    \/ FS_fetch_none
    \/ FS_fetch_fills
    \/ FS_fetch_raises
    \/ FS_classify

SpecFillStage == InitFillStage /\ [][NextFillStage]_vars

---------------------------------------------------------------------------
(* Claims about the RateLimiter with one caller *)

\* C8 (as claimed): after every note_error() call, whatever min_interval and
\* max_interval main built from --throttle and whatever calls came before,
\* min_interval <= cooldown <= max_interval.
C8_CooldownWithinBounds ==
    l_lastOp = "note_error" =>
        (min_interval_s <= cooldown /\ cooldown <= max_interval_s)

\* C9: with a single caller, each wait() returns no earlier than the return of
\* the previous wait() + min_interval + the cooldown at the moment of the call,
\* and a wait() called at or after that target does not sleep.
C9_WaitSpacing ==
    (l_pc = "idle" /\ l_lastOp = "wait" /\ l_waits >= 2) =>
        /\ last_ts >= l_prevRet + min_interval_s + l_cdAtCall
        /\ (l_now >= l_prevRet + min_interval_s + l_cdAtCall => ~l_slept)

\* a second wait() that had to sleep, with a cooldown in force
C9_Witness ==
    /\ l_pc = "idle" /\ l_lastOp = "wait" /\ l_waits >= 2
    /\ l_slept /\ l_cdAtCall > 0

\* k consecutive note_ok() calls from cooldown cd (cut short at 0, where
\* note_ok() changes nothing)
RECURSIVE NoteOkRun(_, _)
NoteOkRun(cd, k) ==
    IF k = 0 \/ (cd = 0 /\ note_ok(cd) = 0) THEN cd ELSE NoteOkRun(note_ok(cd), k - 1)

\* C11: note_ok() never increases the cooldown and never makes it negative;
\* from every reachable cooldown a finite run of consecutive note_ok() calls
\* (each takes off at least 10 ms, so cooldown / 10 + 1 calls are enough) ends
\* at exactly 0, and a cooldown of 0 stays 0 until the next note_error().
C11_NoteOkDecaysToZero ==
    /\ [][L_note_ok => (0 <= cooldown' /\ cooldown' <= cooldown)]_vars
    /\ [](cooldown >= 0 /\ NoteOkRun(cooldown, cooldown \div 10 + 1) = 0)
    /\ [][(cooldown = 0 /\ ~L_note_error) => cooldown' = 0]_vars

\* note_ok() has lowered a cooldown set by note_error(), and two more calls
\* (not one) bring it to 0
C11_Witness ==
    /\ l_lastOp = "note_ok" /\ l_pc = "idle"
    /\ 0 < cooldown /\ cooldown < min_interval_s
    /\ NoteOkRun(cooldown, 1) > 0 /\ NoteOkRun(cooldown, 2) = 0

---------------------------------------------------------------------------
(* Claims about the candidate selection *)

StateOf(a) ==
    states_by_user[CHOOSE i \in 1..Len(states_by_user) : states_by_user[i].address = a]

\* C17 (as claimed): an entity whose account equity is 0, and an entity with no
\* non-flat position, is never among the candidates, for every --min-value.
C17_ZeroEquityExcluded ==
    \A a \in Range(candidates) :
       /\ extract_account_value(StateOf(a)) # 0
       /\ extract_positions(StateOf(a)) # <<>>

---------------------------------------------------------------------------
(* Claims about the risk score *)

RatLeq(a, b) == ~RatGreater(a, b)
\* the inputs that differ from the scored ones in the equity or in one position
RiskNeighbours ==
    {<<av, rs_positions>> : av \in AccountValues}
    \cup {<<rs_av, [rs_positions EXCEPT ![i] = p]>> :
             i \in 1..Len(rs_positions), p \in RiskPositions}

\* C16: risk_score is within [0, 100], is 0 when the equity is not positive or
\* there are no positions, and otherwise does not decrease when total margin /
\* equity grows, when the maximum leverage grows, or when the nearest known
\* liquidation distance shrinks, the other two held fixed.
C16_RiskScoreBoundedMonotone ==
    rs_pc = "done" =>
       /\ RatLeq(Zero, rs_out) /\ RatLeq(rs_out, Rat(100, 1))
       /\ (rs_av <= 0 \/ rs_positions = <<>>) => rs_out = Zero
       /\ (rs_av > 0 /\ rs_positions # <<>>) =>
             \A nb \in RiskNeighbours :
                LET sameRatio == MarginRatio(nb[1], nb[2]) = MarginRatio(rs_av, rs_positions)
                    sameLev == MaxLev(nb[2]) = MaxLev(rs_positions)
                    sameLiq == Closest(nb[2]) = Closest(rs_positions)
                    higher == RatLeq(rs_out, risk_score(nb[1], nb[2]))
                IN nb[1] > 0 =>
                     /\ (/\ sameLev /\ sameLiq
                         /\ RatLeq(MarginRatio(rs_av, rs_positions), MarginRatio(nb[1], nb[2])))
                           => higher
                     /\ (sameRatio /\ sameLiq /\ MaxLev(rs_positions) <= MaxLev(nb[2]))
                           => higher
                     /\ (/\ sameRatio /\ sameLev
                         /\ Closest(rs_positions) # Null /\ Closest(nb[2]) # Null
                         /\ RatLeq(Closest(nb[2]), Closest(rs_positions)))
                           => higher

\* two positions scored strictly inside (0, 100), with a neighbour whose
\* nearest liquidation distance is smaller and whose score is strictly higher
C16_Witness ==
    /\ rs_pc = "done" /\ rs_av > 0 /\ Len(rs_positions) = 2
    /\ RatGreater(rs_out, Zero) /\ RatGreater(Rat(100, 1), rs_out)
    /\ Closest(rs_positions) # Null
    /\ \E nb \in RiskNeighbours :
          /\ nb[1] = rs_av /\ Closest(nb[2]) # Null
          /\ MaxLev(nb[2]) = MaxLev(rs_positions)
          /\ MarginRatio(nb[1], nb[2]) = MarginRatio(rs_av, rs_positions)
          /\ RatGreater(Closest(rs_positions), Closest(nb[2]))
          /\ RatGreater(risk_score(nb[1], nb[2]), rs_out)

---------------------------------------------------------------------------
(* Claims about the ranking *)

CohortIdx == 1..Len(rk_wallets)
RankOf(k, i) == rk_ranks[k][rk_wallets[i].address]

\* C15: after apply_ranks on a cohort of N wallets with distinct addresses,
\* for each of the four keys the ranks are a permutation of 1..N, the wallet of
\* rank 1 has the maximum score, a strictly higher score has a smaller rank,
\* and wallets of equal score are ranked in their original order.
C15_RanksArePermutation ==
    rk_pc = "ranked" =>
       \A k \in RankKeys :
          /\ DOMAIN rk_ranks[k] = {rk_wallets[i].address : i \in CohortIdx}
          /\ {RankOf(k, i) : i \in CohortIdx} = 1..Len(rk_wallets)
          /\ \A i, j \in CohortIdx :
                /\ (RankOf(k, i) = 1) => ~RatGreater(rk_scores[j][k], rk_scores[i][k])
                /\ RatGreater(rk_scores[i][k], rk_scores[j][k]) => RankOf(k, i) < RankOf(k, j)
                /\ (rk_scores[i][k] = rk_scores[j][k] /\ i < j) => RankOf(k, i) < RankOf(k, j)

\* a full cohort where the first two wallets tie on pnl and a later wallet
\* outranks both on conviction
C15_Witness ==
    /\ rk_pc = "ranked" /\ Len(rk_wallets) = MaxWallets
    /\ rk_scores[1]["pnl"] = rk_scores[2]["pnl"]
    /\ RankOf("pnl", 1) + 1 = RankOf("pnl", 2)
    /\ RankOf("conviction", 3) = 1
    /\ RatGreater(rk_scores[3]["risk"], rk_scores[1]["risk"])

\* C30: for each rank key, the wallet order written to <mode>_<key>.json by
\* sort_wallets agrees with the rank positions assigned by apply_ranks: the
\* wallet at position i (1-based) of the sorted list has ranks[key] = i, for
\* any cohort with distinct addresses, tied scores included.
C30_FileOrderIsRankOrder ==
    rk_pc = "written" =>
       \A k \in RankKeys :
          /\ Len(rk_files[k]) = Len(rk_wallets)
          /\ \A i \in 1..Len(rk_files[k]) : rk_ranks[k][rk_files[k][i].address] = i
\* a full cohort whose first two wallets tie on risk below the third, so the
\* risk file opens with the last wallet and keeps the tied pair in cohort order
C30_Witness ==
    /\ rk_pc = "written" /\ Len(rk_wallets) = MaxWallets
    /\ rk_scores[1]["risk"] = rk_scores[2]["risk"]
    /\ RatGreater(rk_scores[3]["risk"], rk_scores[1]["risk"])
    /\ rk_files["risk"] = <<rk_wallets[3], rk_wallets[1], rk_wallets[2]>>
    /\ rk_files["pnl"] # rk_files["risk"]

---------------------------------------------------------------------------
(* Claims about the position ages *)

\* the fills of the log that are for coin c, by their place in the log
FillsOf(c) == {i \in 1..Len(fa_fills) : fa_fills[i].coin = c}
AllTimed(c) == \A i \in FillsOf(c) : fa_fills[i].time[1] = "num"
\* fill i comes before fill j in ascending timestamp order (as supplied, among
\* equal timestamps)
Before(i, j) ==
    \/ fa_fills[i].time[2] < fa_fills[j].time[2]
    \/ (fa_fills[i].time[2] = fa_fills[j].time[2] /\ i < j)
\* fill i opened the position from flat or flipped its sign, and no later fill
\* of the coin brought the position back to flat
StillOpenSince(c, i) ==
    /\ i \in FillsOf(c)
    /\ OpensFromFlat(fa_fills[i]) \/ FlipsSign(fa_fills[i])
    /\ \A j \in FillsOf(c) : Before(i, j) => ~ClosesToFlat(fa_fills[j])
LatestOpen(c, i) ==
    StillOpenSince(c, i) /\ \A j \in FillsOf(c) : StillOpenSince(c, j) => (j = i \/ Before(j, i))
HeldCoins == {fa_positions[i].coin : i \in 1..Len(fa_positions)}

\* the timestamp of the earliest fill of coin c
EarliestTime(c) ==
    CHOOSE t \in {fa_fills[i].time[2] : i \in FillsOf(c)} :
        \A i \in FillsOf(c) : t <= fa_fills[i].time[2]
\* the replay of c's fills ends with no tracked open timestamp
NoTrackedOpen(c) == \A i \in FillsOf(c) : ~StillOpenSince(c, i)

C18_MalformedFieldNeverRaises ==
    fa_pc = "done" => fa_out[1] = "ages"

\* C14: for a held instrument of nonzero current size whose fills all carry a
\* timestamp, the age is measured from the latest fill, in ascending
\* timestamp order, that opened the position from flat or flipped its sign and
\* after which no fill brought it back to flat, in whatever order the fills
\* are supplied.
C14_AgeFromLatestOpen ==
    fa_pc = "done" =>
       \A c \in HeldCoins : \A i \in FillsOf(c) :
          (/\ AllTimed(c)
           /\ ~(Abs(CurByCoin(fa_positions, c)) < PosEps)
           /\ LatestOpen(c, i))
          => /\ fa_out[1] = "ages"
             /\ c \in DOMAIN fa_out[2]
             /\ fa_out[2][c] = AgeDays(At(fa_fills[i].time[2]))

\* open at 1, close at 2, reopen at 3, supplied with the reopen first: the age
\* is counted from 3
C14_Witness ==
    /\ fa_pc = "done" /\ Len(fa_fills) = 3
    /\ fa_positions = <<[coin |-> "BTC", size |-> 4]>>
    /\ fa_fills[1] = Fill("BTC", Num(3), <<Num(0), "B", Num(4)>>)
    /\ fa_fills[2] = Fill("BTC", Num(1), <<Num(0), "B", Num(4)>>)
    /\ fa_fills[3] = Fill("BTC", Num(2), <<Num(4), "A", Num(4)>>)
    /\ fa_out = <<"ages", [c \in {"BTC"} |-> AgeDays(At(3))]>>

---------------------------------------------------------------------------
(* Claims about the window metrics *)

\* the series in timestamp order, as the function sees it
WinSorted == SortByTs(wm_win.account_values)
\* no value exceeds the baseline epsilon
NoneAboveEps == \A i \in 1..Len(WinSorted) : WinSorted[i][2] <= BaselineEps
\* the first value exceeding epsilon is the last point in timestamp order
BaselineIsLast ==
    /\ Len(WinSorted) >= 1
    /\ WinSorted[Len(WinSorted)][2] > BaselineEps
    /\ \A i \in 1..(Len(WinSorted) - 1) : WinSorted[i][2] <= BaselineEps

\* C2 (as claimed): all four metrics are null whenever the account-value series
\* has fewer than 2 points, or no value in it exceeds epsilon, or the first
\* value exceeding epsilon is the last point; none is reported as 0 then.
C2_NullWithoutBaseline ==
    (wm_pc = "done"
       /\ (Len(wm_win.account_values) < 2 \/ NoneAboveEps \/ BaselineIsLast))
    => wm_out = AllNull

\* the point at position i of the sorted series can serve as the baseline
Usable(i) == IsFinite(WinSorted[i][2]) /\ WinSorted[i][2] > BaselineEps
\* position b holds the first usable point
FirstUsable(b) == Usable(b) /\ \A j \in 1..(b - 1) : ~Usable(j)
\* (last - base) / base * 100 in float arithmetic, base a usable value
GrowthOf(last, base) ==
    IF last = NaN THEN NaNFloat
    ELSE IF last = Inf THEN InfFloat
    ELSE Rat((last - base) * 100, base)

\* C19: the baseline is the first point, in ascending timestamp order, whose
\* account value is valid and exceeds epsilon; whenever that point is not the
\* last one, growth_pct = (last value - baseline value) / baseline value * 100.
C19_GrowthFromFirstUsable ==
    (wm_pc = "done" /\ Len(WinSorted) >= 2) =>
        \A b \in 1..(Len(WinSorted) - 1) :
            FirstUsable(b) =>
                wm_out.growth_pct
                    = GrowthOf(WinSorted[Len(WinSorted)][2], WinSorted[b][2])
\* the series [0, 0, 100, 110] at increasing timestamps: the baseline is the
\* third point (index 2 counted from 0) and the growth is 10 percent
C19_Witness ==
    /\ wm_pc = "done"
    /\ wm_win.account_values = <<<<1, 0>>, <<2, 0>>, <<3, 100>>, <<4, 110>>>>
    /\ FirstUsable(3)
    /\ wm_out.growth_pct = Rat(10, 1)

\* the PnL series in timestamp order
PnlSorted == SortByTs(wm_win.pnls)
\* some point of the account-value series can serve as the baseline
HasUsable == \E i \in 1..Len(WinSorted) : Usable(i)
\* the position of the baseline
FirstUsableIdx == CHOOSE b \in 1..Len(WinSorted) : FirstUsable(b)
\* sample k is the first one at or after the baseline timestamp, or the
\* earliest one when no sample is at or after it
Aligned(k) ==
    LET base_ts == WinSorted[FirstUsableIdx][1] IN
      \/ /\ PnlSorted[k][1] >= base_ts
         /\ \A j \in 1..(k - 1) : PnlSorted[j][1] < base_ts
      \/ /\ k = 1
         /\ \A j \in 1..Len(PnlSorted) : PnlSorted[j][1] < base_ts
\* (PnL of the latest sample - baseline-aligned PnL) / baseline value * 100
PnlPctExpected ==
    LET k == CHOOSE i \in 1..Len(PnlSorted) : Aligned(i) IN
      Rat((PnlSorted[Len(PnlSorted)][2] - PnlSorted[k][2]) * 100,
          WinSorted[FirstUsableIdx][2])

\* C20 (as claimed): pnl_pct is null whenever the PnL series has fewer than 2
\* points or no account value is a positive baseline; in every other case it is
\* (latest PnL - baseline-aligned PnL) / baseline account value * 100.
C20_PnlPctAsClaimed ==
    wm_pc = "done" =>
        IF Len(wm_win.pnls) < 2 \/ ~HasUsable
        THEN wm_out.pnl_pct = Null
        ELSE wm_out.pnl_pct = PnlPctExpected

\* C20 (corrected): pnl_pct is null whenever the PnL series has fewer than 2
\* points, or no account value is a positive baseline, or the baseline is the
\* last point of the account-value series (a series of one point included);
\* otherwise it is (latest PnL - baseline-aligned PnL) / baseline account
\* value * 100, the baseline-aligned PnL being the first sample at or after the
\* baseline timestamp, or the earliest sample when none is.
C20_PnlPctFromAlignedBaseline ==
    wm_pc = "done" =>
        IF \/ Len(wm_win.pnls) < 2
           \/ ~HasUsable
           \/ FirstUsableIdx = Len(WinSorted)
        THEN wm_out.pnl_pct = Null
        ELSE wm_out.pnl_pct = PnlPctExpected
\* a baseline of 100 at timestamp 1 followed by 110, PnL samples supplied out
\* of order: 5 at timestamp 3 and 0 at timestamp 1, so pnl_pct is 5 percent
C20_Witness ==
    /\ wm_pc = "done"
    /\ wm_win.account_values = <<<<1, 100>>, <<2, 110>>>>
    /\ wm_win.pnls = <<<<3, 5>>, <<1, 0>>>>
    /\ Aligned(1)
    /\ wm_out.pnl_pct = Rat(5, 1)

\* the timestamps of the points are pairwise distinct
DistinctTs(points) ==
    \A i, j \in 1..Len(points) : points[i][1] = points[j][1] => i = j
\* every order in which the points can be supplied
OrdersOf(points) ==
    {[i \in 1..Len(points) |-> points[f[i]]] :
        f \in {g \in [1..Len(points) -> 1..Len(points)] :
                 \A i, j \in 1..Len(points) : g[i] = g[j] => i = j}}

\* C28: for a window whose account-value points have pairwise-distinct
\* timestamps and whose PnL points have pairwise-distinct timestamps,
\* window_return_metrics returns the same four metrics for every permutation
\* of the points of either series.
C28_OrderOfPointsIrrelevant ==
    (/\ wm_pc = "done"
     /\ DistinctTs(wm_win.account_values) /\ DistinctTs(wm_win.pnls))
    => \A av \in OrdersOf(wm_win.account_values) :
          \A pnls \in OrdersOf(wm_win.pnls) :
             window_return_metrics([account_values |-> av, pnls |-> pnls]) = wm_out
\* three points and two PnL samples supplied latest first
C28_Witness ==
    /\ wm_pc = "done"
    /\ wm_win.account_values = <<<<3, 110>>, <<2, 100>>, <<1, 0>>>>
    /\ wm_win.pnls = <<<<3, 5>>, <<1, 0>>>>
    /\ wm_out.growth_pct = Rat(10, 1)
    /\ wm_out.pnl_pct = Rat(0, 1)
    /\ wm_out.max_drawdown_pct = Rat(0, 1)

---------------------------------------------------------------------------
(* Claims about the batch fetcher *)

NoDuplicates(seq) == \A i, j \in 1..Len(seq) : seq[i] = seq[j] => i = j

\* C1: for N pairwise-distinct identifiers, batch_size >= 1, min_batch_size >= 1
\* and any pattern of upstream answers, the returned (states, failed) are
\* disjoint, failed has no duplicates, and together they are exactly the N
\* inputs: |states| + |failed| = N.
C1_StatesFailedPartition ==
    (bf_pc = "returned" /\ min_batch_size >= 1) =>
        /\ DOMAIN bf_states \cap Range(bf_failed) = {}
        /\ NoDuplicates(bf_failed)
        /\ DOMAIN bf_states \cup Range(bf_failed) = Range(users)
        /\ Cardinality(DOMAIN bf_states) + Len(bf_failed) = Len(users)

\* a run that split a chunk, fell back to per-user requests, and returned with
\* some identifiers fetched and some failed
C1_Witness ==
    /\ bf_pc = "returned" /\ min_batch_size >= 1
    /\ Len(users) = MaxUsers /\ bf_nBatch >= 3
    /\ \E a \in Range(users) : bf_perUser[a] > 0
    /\ DOMAIN bf_states # {} /\ bf_failed # <<>>

\* the requests sent so far, in order: <<"batch", chunk, answered by a list of
\* the chunk's length, that list>> and <<"user", <<addr>>, answered by a
\* non-empty state, <<the answer>>>>
LogIdx == 1..Len(bf_log)
IsBatch(i) == bf_log[i][1] = "batch"
IsUser(i) == bf_log[i][1] = "user"
FailedBatch(i) == IsBatch(i) /\ ~bf_log[i][3]
PartOf(i) == bf_log[i][2]
UserOf(i) == bf_log[i][2][1]
\* a batched request sent later than i for a strict part of i's chunk
RetriedSmaller(i) ==
    \E j \in LogIdx :
       /\ j > i /\ IsBatch(j)
       /\ Range(PartOf(j)) \subseteq Range(PartOf(i))
       /\ Len(PartOf(j)) < Len(PartOf(i))
\* both halves of i's chunk were requested as batches after i, left before right
SplitAndRetried(i) ==
    \E j, k \in LogIdx :
       /\ i < j /\ j < k /\ IsBatch(j) /\ IsBatch(k)
       /\ PartOf(j) = SplitLeft(PartOf(i))
       /\ PartOf(k) = SplitRight(PartOf(i))
PerUserCount(a) == Cardinality({j \in LogIdx : IsUser(j) /\ UserOf(j) = a})

\* C12 (as claimed): a chunk whose batched request failed is split in two
\* halves that are then requested as batches iff its size exceeds
\* min_batch_size; a per-user request is sent only after a failed batched
\* request for a chunk of size <= min_batch_size holding that identifier, never
\* twice, and once one is sent every identifier of that chunk gets exactly one.
\* The halves must have been requested by the time the fetcher is left, by
\* return or by an exception.
C12_SplitOrPerUser ==
    /\ \A i \in LogIdx : (FailedBatch(i) /\ Len(PartOf(i)) <= min_batch_size)
                             => ~RetriedSmaller(i)
    /\ \A j \in LogIdx : IsUser(j) =>
          \E i \in LogIdx : /\ i < j /\ FailedBatch(i)
                            /\ Len(PartOf(i)) <= min_batch_size
                            /\ UserOf(j) \in Range(PartOf(i))
    /\ \A a \in Range(users) : PerUserCount(a) <= 1
    /\ bf_pc \in {"returned", "raised"} =>
          \A i \in LogIdx : FailedBatch(i) =>
             /\ Len(PartOf(i)) > min_batch_size => SplitAndRetried(i)
             /\ (/\ Len(PartOf(i)) <= min_batch_size
                 /\ \E a \in Range(PartOf(i)) : PerUserCount(a) > 0)
                   => \A a \in Range(PartOf(i)) : PerUserCount(a) = 1

MatchedBatch(i) == IsBatch(i) /\ bf_log[i][3]
ElemsOf(i) == bf_log[i][4]
\* a request sent later than i that names an identifier of i's chunk
RequestedAgain(i) ==
    \E j \in LogIdx : j > i /\ Range(PartOf(j)) \cap Range(PartOf(i)) # {}

\* C13: a batched answer of the chunk's length settles the chunk by itself: no
\* later request names any of its identifiers, and when the run returns the
\* k-th identifier maps to the k-th element if that is a state and is in
\* failed otherwise; every entry of states is the element answered at the
\* identifier's own position in a matched batch, or its own per-user answer.
C13_MatchedChunkSettled ==
    /\ \A i \in LogIdx : MatchedBatch(i) =>
          /\ Len(ElemsOf(i)) = Len(PartOf(i))
          /\ ~RequestedAgain(i)
    /\ bf_pc = "returned" =>
          /\ \A i \in LogIdx : MatchedBatch(i) =>
                \A k \in 1..Len(PartOf(i)) :
                   IF ElemsOf(i)[k][1] = "dict"
                   THEN /\ PartOf(i)[k] \in DOMAIN bf_states
                        /\ bf_states[PartOf(i)[k]] = ElemsOf(i)[k]
                   ELSE /\ PartOf(i)[k] \notin DOMAIN bf_states
                        /\ PartOf(i)[k] \in Range(bf_failed)
          /\ \A a \in DOMAIN bf_states :
                \E i \in LogIdx :
                   \/ /\ MatchedBatch(i)
                      /\ \E k \in 1..Len(PartOf(i)) :
                            PartOf(i)[k] = a /\ ElemsOf(i)[k] = bf_states[a]
                   \/ /\ IsUser(i) /\ UserOf(i) = a /\ bf_log[i][3]
                      /\ ElemsOf(i)[1] = bf_states[a]

\* a returned run where a chunk was split and a half of two identifiers was
\* answered by a full-length list with one state and one malformed element
C13_Witness ==
    /\ bf_pc = "returned"
    /\ \E i, j \in LogIdx :
          /\ i < j /\ FailedBatch(i) /\ MatchedBatch(j)
          /\ Len(PartOf(j)) = 2 /\ PartOf(j) = SplitRight(PartOf(i))
          /\ ElemsOf(j)[1][1] = "bad" /\ ElemsOf(j)[2][1] = "dict"
          /\ PartOf(j)[1] \in Range(bf_failed)
          /\ PartOf(j)[2] \in DOMAIN bf_states

\* the list an activation was called with: its chunks, joined
RECURSIVE JoinFrom(_, _)
JoinFrom(parts, i) == IF i > Len(parts) THEN <<>> ELSE parts[i] \o JoinFrom(parts, i + 1)
UsersOfCall(act) == JoinFrom(act.parts, 1)
\* this step enters a recursive call
Recurses == Len(bf_stack) >= 1 /\ Len(bf_stack') = Len(bf_stack) + 1

\* C25 (as claimed): for every input list, batch_size >= 1, every
\* min_batch_size the command line accepts (0 included) and every pattern of
\* upstream failures, no call of the fetcher fails with an error, and each
\* recursive call receives a non-empty list strictly shorter than the chunk
\* of its parent.
C25_RecursionReturns ==
    /\ [](bf_pc # "raised")
    /\ [][Recurses =>
            /\ UsersOfCall(bf_stack'[Len(bf_stack')]) # <<>>
            /\ Len(UsersOfCall(bf_stack'[Len(bf_stack')])) < Len(CurPart)]_vars

\* every request of the call went unanswered: no batched request was matched
\* and no per-user request gave a state
TotalFailure == \A i \in LogIdx : ~bf_log[i][3]
BatchedCount == Cardinality({i \in LogIdx : IsBatch(i)})
PerUserTotal == Cardinality({i \in LogIdx : IsUser(i)})

\* C26: under total upstream failure with N >= 1 distinct identifiers,
\* min_batch_size >= 1 and the per-user fallback on (as main calls it), the
\* fetcher sends exactly one per-user request per identifier (N in total) and
\* fewer than 2N batched requests, and returns no state and all N identifiers
\* as failed, in input order.
C26_TotalFailureCounts ==
    (/\ bf_pc = "returned" /\ TotalFailure
     /\ min_batch_size >= 1 /\ fallback_per_user /\ Len(users) >= 1)
    => /\ \A a \in Range(users) : PerUserCount(a) = 1
       /\ PerUserTotal = Len(users)
       /\ BatchedCount < 2 * Len(users)
       /\ bf_states = EmptyDict
       /\ bf_failed = users
\* MaxUsers identifiers in one chunk, split down to single identifiers: 2N - 1
\* batched requests and N per-user requests
C26_Witness ==
    /\ bf_pc = "returned" /\ TotalFailure
    /\ min_batch_size = 1 /\ fallback_per_user
    /\ Len(users) = MaxUsers /\ batch_size = MaxUsers
    /\ BatchedCount = 2 * MaxUsers - 1
    /\ PerUserTotal = MaxUsers
    /\ bf_failed = users

---------------------------------------------------------------------------
(* Claims about the transport *)

\* the last attempt has been classified and the next one has not been sent
AttemptHandled == t_pc \in {"backoff", "loop", "send", "done"} /\ nSend >= 1

\* C3: one call makes at most retries+1 HTTP attempts and terminates; the first
\* attempt answered 200 with a parsable body ends the call, which returns that
\* body and makes no further attempt.
\* Termination is stated with a rank: a call in progress can always take a
\* step, and every step of it lowers a rank that is never negative.
CallActive == t_pc \notin {"idle", "done"}

StageRank ==
    CASE t_pc = "loop" -> 4
      [] t_pc = "send" -> 3
      [] t_pc = "handle" -> 2
      [] t_pc = "backoff" -> 1
      [] OTHER -> 0

CallRank ==
    IF CallActive THEN 4 * (Max(retries, -1) + 1 - attempt) + StageRank ELSE 0

C3_BoundedAttempts ==
    /\ [](nSend <= Max(retries, -1) + 1)
    /\ []((AttemptHandled /\ ~t_outcome.exc /\ t_outcome.status = 200
             /\ t_outcome.body # "unparsable")
           => (t_pc = "done" /\ t_result = t_outcome.body))
    /\ [](CallRank >= 0 /\ (CallActive => ENABLED TransportStep))
    /\ [][CallActive => CallRank' < CallRank]_vars

\* a call that succeeded on its last allowed attempt, after retries
C3_Witness ==
    /\ t_pc = "done" /\ t_result \in Bodies
    /\ retries = MaxRetries /\ nSend = retries + 1

\* C4 (as claimed): every attempt answered 429 or any status in 500..599 is
\* retried: note_error() is called for it and, while fewer than retries+1
\* attempts have been made, another attempt follows.
C4_Every5xxRetried ==
    (AttemptHandled /\ ~t_outcome.exc
       /\ (t_outcome.status = 429 \/ t_outcome.status \in 500..599))
    => /\ t_notes = <<"error">>
       /\ (nSend < retries + 1 => t_pc # "done")

\* C5: an attempt answered with a status that is neither 200 nor 429 nor 5xx
\* ends the call at once: note_ok() and not note_error() is called for it, no
\* backoff sleep and no further attempt follow, and the call returns None,
\* whatever number of retries remains.
C5_FatalStatusEndsCall ==
    (AttemptHandled /\ ~t_outcome.exc
       /\ t_outcome.status \notin ({200, 429} \cup (500..599)))
    => /\ t_notes = <<"ok">>
       /\ t_pc = "done"
       /\ t_result = "None"
       /\ nSleep = nSend - 1

\* a 404 on the second attempt of a call that still had a retry left
C5_Witness ==
    /\ t_pc = "done" /\ ~t_outcome.exc /\ t_outcome.status = 404
    /\ nSend = 2 /\ attempt < retries

\* C6 (as claimed): when every attempt of a call is retryable (transport
\* exception, 429 or 5xx, 200 with an unparsable body) the call returns None
\* after exactly retries+1 attempts; and every call ends by returning a value.
C6_ExhaustionReturnsNone ==
    /\ (t_pc = "done" /\ t_allRetryable) => (t_result = "None" /\ nSend = retries + 1)
    /\ t_pc = "done" => t_result \in Bodies \cup {"None"}

\* C7: every HTTP attempt is preceded by its own wait(): the k-th send comes
\* after the k-th wait() has returned and before the (k+1)-th begins, so waits
\* and attempts are equal in number, over all calls (retries and the per-entity
\* clearinghouseState requests included).
C7_WaitBeforeEverySend ==
    /\ (t_pc = "send" => (totWait = totSend + 1 /\ nWait = nSend + 1))
    /\ (t_pc # "send" => (totWait = totSend /\ nWait = nSend))

\* the second call, a per-entity request, in its second attempt
C7_Witness ==
    /\ t_calls = 2 /\ t_type = "clearinghouseState"
    /\ t_pc = "handle" /\ nSend = 2 /\ totSend >= 3

---------------------------------------------------------------------------
(* Claims about several workers sharing the RateLimiter *)

\* C10 (as claimed): with two or more workers calling wait / note_ok /
\* note_error concurrently, no two wait() calls return less than min_interval
\* apart, and no cooldown update is lost: once no update is in flight the
\* cooldown is what the completed updates give when applied one after another.
C10_ConcurrentSpacing ==
    /\ c_nrets >= 2 => c_lastRet - c_prevRet >= min_interval_s
    /\ (\A w \in Workers : c_pc[w] \notin {"err_write", "ok_write"}) => cooldown = c_cdSerial

---------------------------------------------------------------------------
(* Claims about the address collection *)

\* a valid identifier in lower case, without padding
Canonical(a) == ETH_ADDR_RE_match(a) /\ lower(a) = a
\* the position at which x first occurs in items
FirstAt(items, x) ==
    CHOOSE i \in 1..Len(items) : items[i] = x /\ \A j \in 1..(i - 1) : items[j] # x
\* out holds each distinct item once, in the order of its first occurrence
KeepsFirstOccurrences(items, out) ==
    /\ \A i, j \in 1..Len(out) : out[i] = out[j] => i = j
    /\ Range(out) = Range(items)
    /\ \A i, j \in 1..Len(out) : i < j => FirstAt(items, out[i]) < FirstAt(items, out[j])
\* every string supplied to this run
Supplied ==
    Range(ad_cli) \cup (IF ad_file = NoFile THEN {} ELSE Range(ad_file[2]))
                  \cup (IF ad_lb = LbNone THEN {} ELSE Range(ad_lb[2]) \ {NoAddrEntry})

\* C21: lower-casing a valid identifier is idempotent and keeps it valid;
\* dedupe_keep_order returns each distinct identifier once, in the order of its
\* first occurrence, and is idempotent; the list main passes to the fetcher
\* holds only valid lower-case identifiers and no duplicates.
C21_CanonicalAddresses ==
    /\ [](\A s \in Supplied :
            is_eth_address(s) =>
                lower(lower(s)) = lower(s) /\ is_eth_address(lower(s)))
    /\ [][AD_dedupe =>
            /\ KeepsFirstOccurrences(addrs, addrs')
            /\ dedupe_keep_order(addrs') = addrs']_vars
    /\ [](ad_pc = "fetch" =>
            /\ \A i \in 1..Len(addrs) : Canonical(addrs[i])
            /\ \A i, j \in 1..Len(addrs) : addrs[i] = addrs[j] => i = j)
\* the same address given twice on the command line, once padded and in upper
\* case, and once more by the leaderboard, behind another one
C21_Witness ==
    /\ ad_pc = "fetch"
    /\ ad_cli = <<RawAddr(<<" ">>, "x", "A", "A"), RawAddr(<<>>, "x", "a", "a")>>
    /\ ad_lb = <<"list", <<RawAddr(<<>>, "X", "b", "b")>>>>
    /\ addrs = <<RawAddr(<<>>, "x", "a", "a"), RawAddr(<<>>, "x", "b", "b")>>

---------------------------------------------------------------------------
(* Claims about the backoff sleep *)

\* min(backoff_cap, backoff_base * 2^k)
SleepBaseOf(k) ==
    IF BackoffBaseMs * (2 ^ k) < BackoffCapMs THEN BackoffBaseMs * (2 ^ k) ELSE BackoffCapMs
\* the step that classifies the answered attempt in hand
Classifying == t_pc = "handle" /\ t_pc' # "handle"
\* the attempt in hand is retryable and is not the last allowed one
RetryableNotLast == ClaimedRetryable(t_outcome) /\ attempt < retries

\* C22 (as claimed): in one transport call a backoff sleep follows each
\* retryable attempt (transport exception, 429, any 5xx, unparsable 200) that
\* is not the last allowed one, and follows no other attempt; the sleep after
\* 0-based attempt k is min(backoff_cap, backoff_base * 2^k) plus a jitter in
\* [0, jitter], and exactly one sleep lies between two consecutive attempts.
C22_BackoffBetweenAttempts ==
    /\ [][(Classifying /\ RetryableNotLast) => t_pc' = "backoff"]_vars
    /\ [][(Classifying /\ ~RetryableNotLast) => t_pc' # "backoff"]_vars
    /\ [][T_sleep_backoff =>
            /\ t_lastSleep' >= SleepBaseOf(attempt)
            /\ t_lastSleep' <= SleepBaseOf(attempt) + JitterMs
            /\ SleepBaseOf(attempt) <= BackoffCapMs
            /\ (attempt > 0 => SleepBaseOf(attempt - 1) <= SleepBaseOf(attempt))]_vars
    /\ [](t_pc \in {"send", "handle"} =>
            nSleep = (IF t_pc = "send" THEN nSend ELSE nSend - 1))

---------------------------------------------------------------------------
(* Claims about the style label *)

\* a metric reaches the threshold n; a null metric reaches none
Reaches(x, n) == x # Null /\ RatLeq(Rat(n, 1), x)
\* the classes, from the least to the most risky
ClassRank(label) ==
    CASE label = "stable" -> 0 [] label = "balanced" -> 1 [] label = "aggressive" -> 2
\* a <= b for metrics of which either may be null: a null one is comparable
\* only with itself
MetricLeq(a, b) == a = b \/ (a # Null /\ b # Null /\ RatLeq(a, b))
\* the inputs that exceed the labelled ones in exactly one argument
StyleAbove ==
    {<<r, sl_vol, sl_mdd>> : r \in {x \in StyleRisks : RatLeq(sl_risk, x)}}
    \cup {<<sl_risk, v, sl_mdd>> : v \in {x \in StyleVols : MetricLeq(sl_vol, x)}}
    \cup {<<sl_risk, sl_vol, d>> : d \in {x \in StyleDrawdowns : MetricLeq(sl_mdd, x)}}

\* C23: the label is "aggressive" exactly when risk >= 70 or volatility >= 5
\* or drawdown >= 25; otherwise "balanced" exactly when risk >= 40 or
\* volatility >= 2 or drawdown >= 12; otherwise "stable"; a null volatility or
\* drawdown triggers no threshold; raising one input never gives a less risky
\* class.
C23_StyleThresholds ==
    sl_pc = "done" =>
        LET high == Reaches(sl_risk, 70) \/ Reaches(sl_vol, 5) \/ Reaches(sl_mdd, 25)
            mid == Reaches(sl_risk, 40) \/ Reaches(sl_vol, 2) \/ Reaches(sl_mdd, 12)
        IN /\ (sl_out = "aggressive") = high
           /\ (sl_out = "balanced") = (~high /\ mid)
           /\ (sl_out = "stable") = (~high /\ ~mid)
           /\ \A in \in StyleAbove :
                  ClassRank(style_label(in[1], in[2], in[3])) >= ClassRank(sl_out)
\* risk just under 40, volatility exactly 2 and no drawdown: "balanced"
C23_Witness ==
    /\ sl_pc = "done"
    /\ sl_risk = Rat(399, 10) /\ sl_vol = Rat(2, 1) /\ sl_mdd = Null
    /\ sl_out = "balanced"

---------------------------------------------------------------------------
(* Claims about the fill stage *)

\* the candidates whose userFills request has been answered, by position
Answered == 1..Len(fs_answers)
\* seq holds its elements once each, in the order they have in the candidates
InCandidateOrder(seq) ==
    \A i, j \in 1..Len(seq) :
        i < j => \E a, b \in 1..Len(fs_candidates) :
                    a < b /\ fs_candidates[a] = seq[i] /\ fs_candidates[b] = seq[j]

\* C27 (as claimed): a candidate whose userFills request returns no result is
\* appended to failed_fills, gets a null last-trade time and no position ages
\* and is classified inactive, while every later candidate is still fetched;
\* the active and inactive cohorts are disjoint and together hold every
\* candidate exactly once, in candidate order.
C27_FailedFillsInactive ==
    /\ \A k \in Answered :
          fs_answers[k] = NoResult =>
             /\ fs_candidates[k] \in Range(failed_fills)
             /\ last_trade[fs_candidates[k]] = NoTime
             /\ fs_candidates[k] \notin DOMAIN fs_ages
             /\ fs_pc = "classified" => fs_candidates[k] \in Range(inactive_addrs)
             /\ fs_pc # "fills" => Len(fs_answers) = Len(fs_candidates)
    /\ fs_pc = "classified" =>
          /\ Range(active_addrs) \cap Range(inactive_addrs) = {}
          /\ Range(active_addrs) \cup Range(inactive_addrs) = Range(fs_candidates)
          /\ Len(active_addrs) + Len(inactive_addrs) = Len(fs_candidates)
          /\ InCandidateOrder(active_addrs) /\ InCandidateOrder(inactive_addrs)

---------------------------------------------------------------------------
(* Claims about the Governor notifications *)

\* notifications the Governor has received from the call in hand
Notified == nNoteOk + nNoteErr

===========================================================================
